---- MODULE Spec2Model ----
(***************************************************************************)
(* TelBot 2.0 (src/telbot/telbot.py): the autopost scheduler               *)
(* (TelegramPoster), the rotation state it persists, the content tree it   *)
(* reads and deletes from, the low-content monitor and the album           *)
(* aggregator (ContentUploader).                                           *)
(*                                                                         *)
(* Time is an integer clock `now` in seconds.  Timers of the JobQueue are  *)
(* punctual: the clock does not pass the due time of a scheduled job       *)
(* before that job has been handled.  The downloads of the uploader take   *)
(* less than a second: the clock does not advance while a save_file is     *)
(* suspended.  A send of the scheduler may take any time.                  *)
(*                                                                         *)
(* Specifications: Spec (scheduler, fixed configuration), SpecReload       *)
(* (scheduler with /reload and restarts under a changed configuration),    *)
(* SpecCrash (scheduler with a crash during _save_state), SpecAlbum        *)
(* (album aggregator), SpecNames (writes of save_file one after the        *)
(* other), SpecTree (cleanup_empty_dirs on any content tree),              *)
(* SpecAlbumFaults (album aggregator with a failed /reload and a blocked   *)
(* category directory), SpecSingle (single submissions, same faults),      *)
(* SpecClassify (diagnostics of a failed tick), SpecCrashTick (scheduler   *)
(* with a crash in the middle of a tick), SpecSaveFails (scheduler with a  *)
(* _save_state that raises), SpecPostNow (scheduler with /post_now).       *)
(***************************************************************************)
EXTENDS Integers, Sequences, FiniteSets, TLC

(***************************************************************************)
(* Bounds of the model and the configuration the model runs with.          *)
(***************************************************************************)
\* last instant of the clock
MaxTime == 6
\* number of get_next_channel selections explored
MaxSelections == 4
\* number of operator commands, restarts and changes made to the content
\* tree by other programs, taken together
MaxEvents == 3
\* schedule.post_interval_minutes * 60 of the configuration, in seconds
IntervalSeconds == 2
\* schedule.first_post_hour / schedule.last_post_hour of the configuration
FirstPostHour == 8
LastPostHour == 22
\* settings.low_content_threshold of the configuration
LowContentThreshold == 2
\* asset names available per category in the content tree
MaxFiles == 2
\* job handles of the JobQueue that can exist at the same time
MaxJobs == 2

(***************************************************************************)
(* Program constants.                                                      *)
(***************************************************************************)
\* start_posting: first_delay = 10
DefaultFirstDelay == 10
\* datetime.hour ranges over 0..23
HoursPerDay == 24

None == -1

Hours == 0 .. (HoursPerDay - 1)

\* the hours of the day a tick is tried at: the last hour before the posting
\* window, its first hour and the first hour after it
HourSamples == {h \in Hours : h \in {FirstPostHour - 1, FirstPostHour, LastPostHour}}
JobIds == 1 .. MaxJobs

Min(S) == CHOOSE x \in S : \A y \in S : x <= y

\* dictionaries: the empty dict, d[k] = v, d.pop(k, default)
NoEntries == [k \in {} |-> 0]

Put(d, k, v) == [x \in DOMAIN d \cup {k} |-> IF x = k THEN v ELSE d[x]]

Drop(d, k) == [x \in DOMAIN d \ {k} |-> d[x]]

(***************************************************************************)
(* Configuration (CONFIG["channels"], in the order of the JSON object).    *)
(* Channel "c" is disabled, so get_enabled_channels filters it out.        *)
(***************************************************************************)
Cat(folder, tags) == [folder_name |-> folder, hashtags |-> tags]

Chan(key, en, cats) == [key |-> key, enabled |-> en, categories |-> cats]

BaseConfig ==
    << Chan("a", TRUE, << Cat("c1", << "#a1" >>) >>),
       Chan("c", FALSE, << Cat("c3", << "#c3" >>) >>),
       Chan("b", TRUE, << Cat("c2", << "#b2" >>) >>) >>

\* the configurations config.json can hold: the three channels, some of them
\* enabled
ConfigOf(ea, ec, eb) ==
    << Chan("a", ea, << Cat("c1", << "#a1" >>) >>),
       Chan("c", ec, << Cat("c3", << "#c3" >>) >>),
       Chan("b", eb, << Cat("c2", << "#b2" >>) >>) >>

Configs == {ConfigOf(TRUE, TRUE, TRUE), BaseConfig,
            ConfigOf(TRUE, FALSE, FALSE), ConfigOf(FALSE, FALSE, FALSE)}

\* CONFIG after CONFIG.clear(): no key at all; CONFIG["channels"] raises
\* KeyError, CONFIG.get(key, default) yields the default
Cleared == << >>

\* get_enabled_channels().keys(), as a list
get_enabled_channels(cfg) ==
    LET en == SelectSeq(cfg, LAMBDA c : c.enabled)
    IN  [i \in 1 .. Len(en) |-> en[i].key]

Range(s) == {s[i] : i \in 1 .. Len(s)}

(***************************************************************************)
(* The content tree.  A directory is its path below content/ (a sequence   *)
(* of names); a file is the directory that holds it and its name.  A file  *)
(* name is kept as stem (the parts joined by "_"), collision counter       *)
(* (0: none) and extension.                                                *)
(***************************************************************************)
FName(stem, c, ext) == [stem |-> stem, c |-> c, ext |-> ext]

File(dir, name) == [dir |-> dir, name |-> name]

\* names matching re.match(r"\d{4}-\d{2}", name)
MonthNames == {"2024-01"}

\* SUPPORTED_FORMATS
SUPPORTED_FORMATS == {".jpg", ".jpeg", ".png", ".gif", ".webp", ".mp4", ".webm", ".mov"}

PackageInfo == FName(<< "package_info" >>, 0, ".json")

NoImg == File(<< >>, FName(<< >>, 0, ""))

Parent(d) == SubSeq(d, 1, Len(d) - 1)

\* every prefix of a path, the path included, the root excluded
Ancestors(d) == {SubSeq(d, 1, k) : k \in 1 .. Len(d)}

\* the entries of directory d (Path.iterdir)
SubDirs(ds, d) == {x \in ds : Len(x) = Len(d) + 1 /\ Parent(x) = d}

FilesIn(fs, d) == {f \in fs : f.dir = d}

IsEmptyDir(fs, ds, d) == SubDirs(ds, d) = {} /\ FilesIn(fs, d) = {}

\* the month directories of content/
MonthDirs(ds) == {d \in ds : Len(d) = 1 /\ d[1] \in MonthNames}

\* get_random_image: the candidate list `images` for a channel
Images(fs, ds, channel_key) ==
    {f \in fs : /\ Len(f.dir) = 3
                /\ << f.dir[1] >> \in MonthDirs(ds)
                /\ f.dir[2] = channel_key
                /\ f.dir \in ds
                /\ f.name.ext \in SUPPORTED_FORMATS}

\* every asset of the tree, whatever its channel
Assets(fs, ds) ==
    {f \in fs : /\ Len(f.dir) = 3
                /\ << f.dir[1] >> \in MonthDirs(ds)
                /\ f.name.ext \in SUPPORTED_FORMATS}

\* get_content_stats()["channels"][ch]["total"]
ChannelTotal(fs, ds, ch) == Cardinality(Images(fs, ds, ch))

\* get_low_content_channels(threshold): the keys of the returned dict
get_low_content_channels(cfg, fs, ds, threshold) ==
    {ch \in Range(get_enabled_channels(cfg)) : ChannelTotal(fs, ds, ch) < threshold}

(***************************************************************************)
(* cleanup_empty_dirs: empty category directories, then empty channel      *)
(* directories, then month directories that hold nothing or only           *)
(* package_info.json.                                                      *)
(***************************************************************************)
CleanupCats(fs, ds) ==
    ds \ {d \in ds : Len(d) = 3 /\ Parent(Parent(d)) \in MonthDirs(ds)
                     /\ Parent(d) \in ds /\ IsEmptyDir(fs, ds, d)}

\* a cleanup that looks at the channel directories before it has removed
\* the category directories
ChansBeforeCats(fs, ds) ==
    LET d1 == CleanupCats(fs, ds)
    IN  d1 \ {d \in d1 : Len(d) = 2 /\ Parent(d) \in MonthDirs(d1)
                         /\ IsEmptyDir(fs, ds, d)}

CleanupChans(fs, ds) ==
    LET d1 == CleanupCats(fs, ds)
    IN  d1 \ {d \in d1 : Len(d) = 2 /\ Parent(d) \in MonthDirs(d1)
                         /\ IsEmptyDir(fs, d1, d)}

\* a cleanup that removes a month directory as soon as it holds no directory
MonthWithoutDirs(fs, ds, m) == SubDirs(ds, m) = {}

\* cleanup_empty_dirs: the test on `remaining`
RemovableMonth(fs, ds, m) ==
    /\ SubDirs(ds, m) = {}
    /\ \/ FilesIn(fs, m) = {}
       \/ FilesIn(fs, m) = {File(m, PackageInfo)}

cleanup_empty_dirs(fs, ds) ==
    LET d2 == CleanupChans(fs, ds)
        gone == {m \in MonthDirs(d2) : RemovableMonth(fs, d2, m)}
    IN  [files |-> {f \in fs : f.dir \notin gone}, dirs |-> d2 \ gone]


(***************************************************************************)
(* State.                                                                  *)
(*   CONFIG, channels_list, current_channel_index, is_posting,             *)
(*   last_post_time, posting_job, _low_content_warned, _last_send_error:   *)
(*       the globals and the fields of TelegramPoster;                     *)
(*   STATE_FILE: posting_state.json; files, dirs: the tree under content/; *)
(*   now: the clock; job_queue: due time of each scheduled job (None: not  *)
(*       scheduled); tick: the position of the _posting_tick coroutine     *)
(*       started by each job;                                              *)
(*   op, selections, monitor, boot, events: observations (the              *)
(*       last step taken and what it returned, the channels handed out by  *)
(*       get_next_channel, what the last monitor check saw, the state file *)
(*       found at the first startup, the counter of the events bound);     *)
(*   _album_buffer, _album_timers: the fields of ContentUploader;          *)
(*   once_queue: the run_once jobs of the JobQueue; album_task: the        *)
(*       _process_album coroutines in flight;                              *)
(*   arrivals, flushes, replies: observations (the album messages in       *)
(*       arrival order with their arrival time, the batches popped by      *)
(*       _process_album, the replies sent).                                *)
(***************************************************************************)
VARIABLES CONFIG, channels_list, current_channel_index, is_posting,
          last_post_time, posting_job, _low_content_warned, _last_send_error,
          STATE_FILE, files, dirs, now, job_queue, tick,
          op, selections, monitor, boot, events,
          _album_buffer, _album_timers, once_queue, album_task,
          arrivals, flushes, replies

posterVars == << channels_list, current_channel_index, is_posting,
                 last_post_time, posting_job, _low_content_warned,
                 _last_send_error >>

vars == << CONFIG, channels_list, current_channel_index, is_posting,
           last_post_time, posting_job, _low_content_warned, _last_send_error,
           STATE_FILE, files, dirs, now, job_queue, tick,
           op, selections, monitor, boot, events,
           _album_buffer, _album_timers, once_queue, album_task,
           arrivals, flushes, replies >>

\* the state of ContentUploader, its run_once jobs and what is observed of it
albumVars == << _album_buffer, _album_timers, once_queue, album_task,
                arrivals, flushes, replies >>

\* texts the transport can fail with
SendErrors == {"Timed out"}

NoError == "None"

\* no diagnostic notification
NoDiag == << >>

\* the step just taken: the operation, the job it belongs to, what it
\* returned, the hour a tick saw, whether it called _check_low_content and
\* the details of the diagnostic notification it sent to the admins
Op(name, job, ret) ==
    [name |-> name, job |-> job, ret |-> ret, hour |-> 0,
     checked |-> FALSE, diag |-> NoDiag]

TimerOp(job, ret, hour) == [Op("timer", job, ret) EXCEPT !.hour = hour]

\* the results of post_and_delete
OkResult == [ok |-> TRUE, reason |-> "", details |-> << >>]

Failure(reason, details) == [ok |-> FALSE, reason |-> reason, details |-> details]

NoContent == Failure("no_content", << "no files of a supported format" >>)

FileMissing == Failure("file_missing", << "file vanished" >>)

SendFailed(api_err) == Failure("send_failed", << "API error", api_err >>)

IdleTick == [pc |-> "idle", channel_key |-> "", img |-> NoImg, low |-> {},
             rest |-> << >>, cur |-> "", prev |-> {}, alerted |-> {}]

Running(j) == tick[j].pc # "idle"

\* no coroutine is between two statements that run without suspension
Quiescent == \A j \in JobIds : tick[j].pc # "selected"

(***************************************************************************)
(* Rotation state on disk.  last_update is written and never read; it is   *)
(* left out of the record.  valid: the text of the file is the whole JSON  *)
(* object (json.loads accepts it).                                         *)
(***************************************************************************)
NoFile == [exists |-> FALSE, valid |-> FALSE, current_channel_index |-> 0,
           is_posting |-> FALSE, last_post_time |-> None]

\* _save_state: the record written to STATE_FILE
_save_state(idx, posting, lpt) ==
    [exists |-> TRUE, valid |-> TRUE, current_channel_index |-> idx,
     is_posting |-> posting, last_post_time |-> lpt]

\* STATE_FILE.write_text stopped after the file was opened for writing
\* (truncated) and before the whole text was in it
TornFile == [NoFile EXCEPT !.exists = TRUE]

\* a start that takes the rotation up at the head of the list
IndexFromHead(file, n) == 0

\* _load_state: the index and the last post time after loading
LoadedIndex(file, n) ==
    IF file.exists /\ file.valid /\ file.current_channel_index < n
    THEN file.current_channel_index
    ELSE 0

LoadedTime(file) ==
    IF file.exists /\ file.valid THEN file.last_post_time ELSE None

\* a start that always waits a full interval
FullInterval(t, lpt) == IntervalSeconds

\* start_posting: first_delay
first_delay(t, lpt) ==
    IF lpt # None /\ IntervalSeconds - (t - lpt) > 0
    THEN IntervalSeconds - (t - lpt)
    ELSE DefaultFirstDelay

\* job_queue.run_repeating / run_once: the handle of the new job
FreeJobs(jq, tk) == {j \in JobIds : jq[j] = None /\ tk[j].pc = "idle"}

(***************************************************************************)
(* Low-content monitor: _check_low_content.  It computes the low channels  *)
(* once, then walks them in the order of the configuration; for a channel  *)
(* not yet warned it sends the alert to every admin (a suspension point)   *)
(* and only then adds the channel to _low_content_warned; after the walk   *)
(* it drops the warned channels that are no longer low.                    *)
(***************************************************************************)
\* the channels of `low` in the order get_low_content_channels yields them
LowOrder(cfg, low) == SelectSeq(get_enabled_channels(cfg), LAMBDA ch : ch \in low)

\* the loop test: if ch_key in self._low_content_warned: continue
StillToAlert(rest, warned) == SelectSeq(rest, LAMBDA ch : ch \notin warned)

\* the reset loop at the end of _check_low_content
WarnedAfterReset(low, warned) == warned \ {ch \in warned : ch \notin low}

NoMonitor == [lastLow |-> {}, seen |-> FALSE,
              done |-> FALSE, low |-> {}, prev |-> {}, alerted |-> {}]

\* the walk over the low channels, entered or resumed by the coroutine of
\* job j with warned set w: up to the next alert, or to the end
AlertLoop(j, low, rest, w, prev, alerted, mon) ==
    LET todo == StillToAlert(rest, w)
    IN  IF todo = << >>
        THEN /\ tick' = [tick EXCEPT ![j] = IdleTick]
             /\ _low_content_warned' = WarnedAfterReset(low, w)
             /\ monitor' = [mon EXCEPT !.done = TRUE, !.low = low,
                                       !.prev = prev, !.alerted = alerted]
        ELSE IF CONFIG = Cleared
        THEN \* CONFIG["channels"][ch_key] raises: the coroutine ends there
             /\ tick' = [tick EXCEPT ![j] = IdleTick]
             /\ _low_content_warned' = w
             /\ monitor' = mon
        ELSE /\ tick' = [tick EXCEPT ![j] =
                           [pc |-> "alerting", channel_key |-> tick[j].channel_key,
                            img |-> NoImg, low |-> low, rest |-> Tail(todo),
                            cur |-> Head(todo), prev |-> prev,
                            alerted |-> alerted \cup {Head(todo)}]]
             /\ _low_content_warned' = w
             /\ monitor' = mon

\* _check_low_content from its first statement, on the tree (fs, ds)
CheckLowContent(j, fs, ds) ==
    LET low == get_low_content_channels(CONFIG, fs, ds, LowContentThreshold)
        prev == IF monitor.seen THEN monitor.lastLow ELSE {}
    IN  AlertLoop(j, low, LowOrder(CONFIG, low), _low_content_warned, prev, {},
                  [monitor EXCEPT !.lastLow = low, !.seen = TRUE])

\* the alert went out to the admins: self._low_content_warned.add(ch_key)
AlertDone(j) ==
    /\ tick[j].pc = "alerting"
    /\ AlertLoop(j, tick[j].low, tick[j].rest,
                 _low_content_warned \cup {tick[j].cur},
                 tick[j].prev, tick[j].alerted, monitor)

(***************************************************************************)
(* Startup: TelegramPoster.__init__ (with _load_state) followed by         *)
(* post_init, which calls start_posting on the fresh JobQueue.             *)
(***************************************************************************)
StartupIndex(file, cfg) == LoadedIndex(file, Len(get_enabled_channels(cfg)))

StartupQueue(file, t) ==
    [j \in JobIds |-> IF j = 1 THEN t + first_delay(t, LoadedTime(file)) ELSE None]

InitConfigs == {BaseConfig}

AssetName(i) == FName(<< "f" >>, i, ".jpg")

AssetDir(ch) == IF ch = "a" THEN << "2024-01", "a", "c1" >>
                            ELSE << "2024-01", "b", "c2" >>

TreeOf(na, nb) ==
    {File(AssetDir("a"), AssetName(i)) : i \in 1 .. na}
        \cup {File(AssetDir("b"), AssetName(i)) : i \in 1 .. nb}
        \cup {File(<< "2024-01" >>, PackageInfo)}

DirsOf(fs) == UNION {Ancestors(f.dir) : f \in fs}

InitTrees == {TreeOf(1, 0), TreeOf(MaxFiles, MaxFiles)}

\* what posting_state.json can hold when the process starts
InitStateFiles ==
    {NoFile} \cup
    {_save_state(i, TRUE, 0) : i \in 0 .. 1}

\* the state once the process has started with configuration cfg, state
\* file `file` and content tree `tree`
Startup(cfg, file, tree) ==
        /\ CONFIG = cfg
        /\ channels_list = get_enabled_channels(cfg)
        /\ current_channel_index = StartupIndex(file, cfg)
        /\ is_posting = TRUE
        /\ last_post_time = LoadedTime(file)
        /\ posting_job = 1
        /\ _low_content_warned = {}
        /\ _last_send_error = NoError
        /\ STATE_FILE = _save_state(StartupIndex(file, cfg), TRUE, LoadedTime(file))
        /\ files = tree
        /\ dirs = DirsOf(tree)
        /\ now = 0
        /\ job_queue = StartupQueue(file, 0)
        /\ tick = [j \in JobIds |-> IdleTick]
        /\ op = Op("startup", 0, "true")
        /\ selections = << >>
        /\ monitor = NoMonitor
        /\ boot = file
        /\ events = 0
        /\ _album_buffer = NoEntries
        /\ _album_timers = NoEntries
        /\ once_queue = NoEntries
        /\ album_task = NoEntries
        /\ arrivals = << >>
        /\ flushes = << >>
        /\ replies = << >>

Init ==
    \E cfg \in InitConfigs, file \in InitStateFiles, tree \in InitTrees :
        Startup(cfg, file, tree)

\* the process stops and starts again; config.json holds cfg
RestartOn(cfg) ==
    /\ events < MaxEvents
    /\ events' = events + 1
    /\ CONFIG' = cfg
    /\ channels_list' = get_enabled_channels(cfg)
    /\ current_channel_index' = StartupIndex(STATE_FILE, cfg)
    /\ is_posting' = TRUE
    /\ last_post_time' = LoadedTime(STATE_FILE)
    /\ posting_job' = 1
    /\ _low_content_warned' = {}
    /\ _last_send_error' = NoError
    /\ STATE_FILE' = _save_state(StartupIndex(STATE_FILE, cfg), TRUE,
                                 LoadedTime(STATE_FILE))
    /\ job_queue' = StartupQueue(STATE_FILE, now)
    /\ tick' = [j \in JobIds |-> IdleTick]
    /\ op' = Op("startup", 0, "true")
    /\ monitor' = NoMonitor
    /\ UNCHANGED << files, dirs, now, selections, boot, albumVars >>

\* a restart with config.json as it was
Restart == RestartOn(CONFIG)

(***************************************************************************)
(* start_posting / stop_posting.                                           *)
(***************************************************************************)
\* a start_posting without the is_posting test
NeverRunning == FALSE

\* start_posting: if self.is_posting: return False
AlreadyRunning == is_posting

\* stop_posting: if not self.is_posting: return False
NotRunning == ~is_posting

\* a stop that only clears the flag and leaves the job in the queue
QueueKeptOnStop(jq, job) == jq

\* stop_posting: self.posting_job.schedule_removal()
QueueAfterStop(jq, job) == [jq EXCEPT ![job] = None]

\* a stop that removes the job from the queue and keeps the handle to it
HandleKeptOnStop(job) == job

\* stop_posting: self.posting_job = None
HandleAfterStop(job) == None

StartPosting ==
    /\ Quiescent
    /\ events < MaxEvents
    /\ events' = events + 1
    /\ IF AlreadyRunning
       THEN /\ op' = Op("start_posting", 0, "false")
            /\ UNCHANGED << posterVars, STATE_FILE, job_queue >>
       ELSE /\ FreeJobs(job_queue, tick) # {}
            /\ LET j == Min(FreeJobs(job_queue, tick))
               IN  /\ job_queue' = [job_queue EXCEPT
                                      ![j] = now + first_delay(now, last_post_time)]
                   /\ posting_job' = j
            /\ is_posting' = TRUE
            /\ STATE_FILE' = _save_state(current_channel_index, TRUE, last_post_time)
            /\ op' = Op("start_posting", 0, "true")
            /\ UNCHANGED << channels_list, current_channel_index, last_post_time,
                            _low_content_warned, _last_send_error >>
    /\ UNCHANGED << CONFIG, files, dirs, now, tick, selections, monitor, boot,
                    albumVars >>

StopPosting ==
    /\ Quiescent
    /\ events < MaxEvents
    /\ events' = events + 1
    /\ IF NotRunning
       THEN /\ op' = Op("stop_posting", 0, "false")
            /\ UNCHANGED << posterVars, STATE_FILE, job_queue >>
       ELSE /\ IF posting_job # None
               THEN /\ job_queue' = QueueAfterStop(job_queue, posting_job)
                    /\ posting_job' = HandleAfterStop(posting_job)
               ELSE UNCHANGED << job_queue, posting_job >>
            /\ is_posting' = FALSE
            /\ STATE_FILE' = _save_state(current_channel_index, FALSE, last_post_time)
            /\ op' = Op("stop_posting", 0, "true")
            /\ UNCHANGED << channels_list, current_channel_index, last_post_time,
                            _low_content_warned, _last_send_error >>
    /\ UNCHANGED << CONFIG, files, dirs, now, tick, selections, monitor, boot,
                    albumVars >>

(***************************************************************************)
(* _posting_tick, in the three pieces its suspension points and the other  *)
(* users of the content tree cut it into:                                  *)
(*   TimerFire   the job is due: the window gate, get_next_channel and     *)
(*               get_random_image;                                         *)
(*   TickVerify  file_path.exists() and the start of send_file;            *)
(*   TickSendDone the send capability returns: the rest of post_and_delete *)
(*               and of _posting_tick, up to the first alert of            *)
(*               _check_low_content;                                       *)
(*   TickAlertDone an alert of _check_low_content has gone out.            *)
(* The diagnostic notification of a failed tick changes no state and is    *)
(* not a step of its own.                                                  *)
(***************************************************************************)
\* a rotation that stays on the last channel instead of wrapping around
StuckIndex(idx, n) == IF idx + 1 < n THEN idx + 1 ELSE idx

\* get_next_channel: the index after the call
NextIndex(idx, n) == (idx + 1) % n

\* a get_next_channel that leaves STATE_FILE as it is
SelectWithoutSave(idx, posting, lpt, file) == file

\* get_next_channel: what it writes to STATE_FILE
SaveAfterSelect(idx, posting, lpt, file) == _save_state(idx, posting, lpt)

\* the run of the job is skipped while its previous run has not returned
\* (the JobQueue runs at most one instance of a job at a time)
SkipsRun(j) == Running(j)

\* a tick without the window gate
AlwaysInWindow(hour) == TRUE

\* the window gate of _posting_tick
InWindow(hour) ==
    IF CONFIG = Cleared
    THEN 0 <= hour /\ hour < HoursPerDay
    ELSE FirstPostHour <= hour /\ hour < LastPostHour

\* _posting_tick: the diagnostic notification, sent when the result is not ok
DiagDetails(result) == IF result.ok THEN NoDiag ELSE result.details

\* the tail of _posting_tick once post_and_delete has returned `result`:
\* the diagnostic notification, then _check_low_content; o is the step
FinishTick(j, fs, ds, o, result) ==
    IF CONFIG = Cleared
    THEN \* CONFIG["channels"] raises, in the diagnostic block when the result
         \* is not ok, else in get_content_stats: the coroutine ends there
         /\ op' = [o EXCEPT !.checked = result.ok]
         /\ tick' = [tick EXCEPT ![j] = IdleTick]
         /\ UNCHANGED << monitor, _low_content_warned >>
    ELSE /\ op' = [o EXCEPT !.checked = TRUE, !.diag = DiagDetails(result)]
         /\ CheckLowContent(j, fs, ds)

\* a timer that runs its callback once and is gone
QueueOneShot(queue, j) == [queue EXCEPT ![j] = None]

\* run_repeating: a job that has run is due again one interval later,
\* whatever its callback did
QueueAfterRun(queue, j) == [queue EXCEPT ![j] = queue[j] + IntervalSeconds]

TimerFire(j, hour) ==
    /\ Quiescent
    /\ job_queue[j] # None
    /\ job_queue[j] <= now
    /\ job_queue' = QueueAfterRun(job_queue, j)
    /\ UNCHANGED << CONFIG, channels_list, is_posting, last_post_time, posting_job,
                    _last_send_error, files, dirs, now, boot, events, albumVars >>
    /\ IF SkipsRun(j)
       THEN /\ op' = TimerOp(j, "dropped", hour)
            /\ UNCHANGED << current_channel_index, STATE_FILE, tick, selections,
                            monitor, _low_content_warned >>
       ELSE IF ~InWindow(hour)
       THEN /\ op' = TimerOp(j, "gated", hour)
            /\ UNCHANGED << current_channel_index, STATE_FILE, tick, selections,
                            monitor, _low_content_warned >>
       ELSE IF channels_list = << >>
       THEN /\ op' = TimerOp(j, "no_channels", hour)
            /\ UNCHANGED << current_channel_index, STATE_FILE, tick, selections,
                            monitor, _low_content_warned >>
       ELSE /\ Len(selections) < MaxSelections
            /\ LET ch == channels_list[current_channel_index + 1]
                   idx == NextIndex(current_channel_index, Len(channels_list))
               IN  /\ current_channel_index' = idx
                   /\ STATE_FILE' = SaveAfterSelect(idx, is_posting, last_post_time,
                                                    STATE_FILE)
                   /\ selections' = Append(selections, ch)
                   /\ IF CONFIG = Cleared
                      THEN \* post_and_delete: CONFIG["channels"] raises
                           /\ op' = TimerOp(j, "raised", hour)
                           /\ UNCHANGED << tick, monitor, _low_content_warned >>
                      ELSE IF Images(files, dirs, ch) = {}
                      THEN FinishTick(j, files, dirs,
                                      TimerOp(j, "no_content", hour), NoContent)
                      ELSE /\ \E img \in Images(files, dirs, ch) :
                                tick' = [tick EXCEPT ![j] =
                                           [IdleTick EXCEPT !.pc = "selected",
                                                            !.channel_key = ch,
                                                            !.img = img]]
                           /\ op' = TimerOp(j, "selected", hour)
                           /\ UNCHANGED << monitor, _low_content_warned >>

TickVerify(j) ==
    /\ tick[j].pc = "selected"
    /\ UNCHANGED << CONFIG, channels_list, current_channel_index, is_posting,
                    last_post_time, posting_job, _last_send_error, STATE_FILE,
                    files, dirs, now, job_queue, selections, boot, events,
                    albumVars >>
    /\ IF tick[j].img \notin files
       THEN FinishTick(j, files, dirs, Op("verify", j, "file_missing"),
                       FileMissing)
       ELSE /\ tick' = [tick EXCEPT ![j].pc = "sending"]
            /\ op' = Op("verify", j, "sending")
            /\ UNCHANGED << monitor, _low_content_warned >>

TickAlertDone(j) ==
    /\ Quiescent
    /\ AlertDone(j)
    /\ op' = Op("alert_done", j, "")
    /\ UNCHANGED << CONFIG, channels_list, current_channel_index, is_posting,
                    last_post_time, posting_job, _last_send_error, STATE_FILE,
                    files, dirs, now, job_queue, selections, boot, events,
                    albumVars >>

\* a publish that keeps the file it sent
PublishWithoutUnlink(fs, ds, img) == cleanup_empty_dirs(fs, ds)

\* post_and_delete after a successful send: unlink and cleanup_empty_dirs
TreeAfterPublish(fs, ds, img) == cleanup_empty_dirs(fs \ {img}, ds)

\* a publish that keeps the time of the publish before
StaleTime(t, lpt) == lpt

\* post_and_delete after a successful send: last_post_time
TimeAfterPublish(t, lpt) == t

TickSendDone(j, res) ==
    /\ Quiescent
    /\ tick[j].pc = "sending"
    /\ UNCHANGED << CONFIG, channels_list, current_channel_index, is_posting,
                    posting_job, now, job_queue, selections, boot, events,
                    albumVars >>
    /\ IF res = "ok"
       THEN LET tree == TreeAfterPublish(files, dirs, tick[j].img)
                lpt == TimeAfterPublish(now, last_post_time)
            IN  /\ _last_send_error' = NoError
                /\ files' = tree.files
                /\ dirs' = tree.dirs
                /\ last_post_time' = lpt
                /\ STATE_FILE' = _save_state(current_channel_index, is_posting, lpt)
                /\ FinishTick(j, tree.files, tree.dirs,
                              Op("send_done", j, "ok"), OkResult)
       ELSE /\ _last_send_error' = res
            /\ UNCHANGED << files, dirs, last_post_time, STATE_FILE >>
            /\ IF tick[j].img \notin files
               THEN \* file_path.stat() raises: the tick ends there
                    /\ tick' = [tick EXCEPT ![j] = IdleTick]
                    /\ op' = Op("send_done", j, "raised")
                    /\ UNCHANGED << monitor, _low_content_warned >>
               ELSE FinishTick(j, files, dirs, Op("send_done", j, "send_failed"),
                               SendFailed(res))

(***************************************************************************)
(* The clock, and the other programs that write the content tree (the      *)
(* package builder adds assets, an operator removes them).                 *)
(***************************************************************************)
Advance ==
    /\ Quiescent
    /\ now < MaxTime
    /\ \A j \in JobIds : job_queue[j] # None => now < job_queue[j]
    /\ \A q \in DOMAIN once_queue : now < once_queue[q].due
    /\ album_task = NoEntries
    /\ now' = now + 1
    /\ op' = Op("advance", 0, "")
    /\ UNCHANGED << CONFIG, posterVars, STATE_FILE, files, dirs, job_queue, tick,
                    selections, monitor, boot, events, albumVars >>

ExternalAdd(ch, i) ==
    /\ events < MaxEvents
    /\ File(AssetDir(ch), AssetName(i)) \notin files
    /\ files' = files \cup {File(AssetDir(ch), AssetName(i))}
    /\ dirs' = dirs \cup Ancestors(AssetDir(ch))
    /\ events' = events + 1
    /\ op' = Op("external_add", 0, "")
    /\ UNCHANGED << CONFIG, posterVars, STATE_FILE, now, job_queue, tick,
                    selections, monitor, boot, albumVars >>

ExternalRemove(f) ==
    /\ events < MaxEvents
    /\ f \in Assets(files, dirs)
    /\ files' = files \ {f}
    /\ events' = events + 1
    /\ op' = Op("external_remove", 0, "")
    /\ UNCHANGED << CONFIG, posterVars, STATE_FILE, dirs, now, job_queue, tick,
                    selections, monitor, boot, albumVars >>

RestartProcess == Quiescent /\ Restart

Next ==
    \/ StartPosting
    \/ StopPosting
    \/ \E j \in JobIds, hour \in HourSamples : TimerFire(j, hour)
    \/ \E j \in JobIds : TickVerify(j)
    \/ \E j \in JobIds, res \in {"ok"} \cup SendErrors : TickSendDone(j, res)
    \/ \E j \in JobIds : TickAlertDone(j)
    \/ Advance
    \/ \E ch \in {"a", "b"}, i \in 1 .. MaxFiles : ExternalAdd(ch, i)
    \/ \E f \in files : ExternalRemove(f)
    \/ RestartProcess

Spec == Init /\ [][Next]_vars


(***************************************************************************)
(* /reload: cmd_reload.  reload_config clears CONFIG and loads config.json *)
(* again; when the file does not parse, the exception is caught by         *)
(* cmd_reload after CONFIG was cleared and before the poster is touched.   *)
(* Then the list of the poster is rebuilt and the index is reset to 0 when *)
(* it is beyond the new list; _save_state is not called.                   *)
(***************************************************************************)
\* a reload that keeps the index whatever the new list
KeptIndex(idx, n) == idx

\* cmd_reload: the index against the new list
ClampIndex(idx, n) == IF idx >= n THEN 0 ELSE idx

\* what config.json can hold when /reload reads it: a configuration, or
\* text that does not parse (Cleared is what CONFIG is left as)
ReloadInputs == Configs \cup {Cleared}

Reload(cfg) ==
    /\ Quiescent
    /\ events < MaxEvents
    /\ events' = events + 1
    /\ CONFIG' = cfg
    /\ IF cfg = Cleared
       THEN /\ op' = Op("reload", 0, "error")
            /\ UNCHANGED << channels_list, current_channel_index >>
       ELSE /\ op' = Op("reload", 0, "ok")
            /\ channels_list' = get_enabled_channels(cfg)
            /\ current_channel_index' =
                   ClampIndex(current_channel_index,
                              Len(get_enabled_channels(cfg)))
    /\ UNCHANGED << is_posting, last_post_time, posting_job,
                    _low_content_warned, _last_send_error, STATE_FILE, files,
                    dirs, now, job_queue, tick, selections, monitor, boot,
                    albumVars >>

\* what posting_state.json can hold when the process starts, written under
\* any configuration
AnyStateFiles ==
    {NoFile} \cup
    {_save_state(i, TRUE, 0) : i \in 0 .. Len(BaseConfig) - 1}

InitReload ==
    \E cfg \in Configs, file \in AnyStateFiles :
        Startup(cfg, file, TreeOf(1, 0))

\* the restart reads config.json anew
RestartReload == Quiescent /\ \E cfg \in Configs : RestartOn(cfg)

NextReload ==
    \/ \E j \in JobIds, hour \in HourSamples : TimerFire(j, hour)
    \/ \E j \in JobIds : TickVerify(j)
    \/ \E j \in JobIds, res \in {"ok"} \cup SendErrors : TickSendDone(j, res)
    \/ \E j \in JobIds : TickAlertDone(j)
    \/ Advance
    \/ \E cfg \in ReloadInputs : Reload(cfg)
    \/ RestartReload

SpecReload == InitReload /\ [][NextReload]_vars


(***************************************************************************)
(* A crash of the process while _save_state runs.  _save_state is one      *)
(* STATE_FILE.write_text: the file is opened for writing, which truncates  *)
(* it, then the text is written.  The crash is taken in the _save_state of *)
(* get_next_channel; what it leaves on disk is the old text (the file was  *)
(* not opened yet), a truncated or partial text, or the new text.          *)
(***************************************************************************)
CrashOutcomes == {"old", "torn", "new"}

FileAfterCrash(outcome, old, new) ==
    IF outcome = "old" THEN old
    ELSE IF outcome = "torn" THEN TornFile
    ELSE new

CrashInSave(j, hour, outcome) ==
    /\ Quiescent
    /\ events < MaxEvents
    /\ events' = events + 1
    /\ job_queue[j] # None
    /\ job_queue[j] <= now
    /\ ~SkipsRun(j)
    /\ InWindow(hour)
    /\ channels_list # << >>
    /\ STATE_FILE' =
           FileAfterCrash(outcome, STATE_FILE,
                          SaveAfterSelect(NextIndex(current_channel_index,
                                                    Len(channels_list)),
                                          is_posting, last_post_time,
                                          STATE_FILE))
    \* the process is gone: no job, no coroutine, no poster
    /\ job_queue' = [q \in JobIds |-> None]
    /\ tick' = [q \in JobIds |-> IdleTick]
    /\ current_channel_index' = 0
    /\ is_posting' = FALSE
    /\ last_post_time' = None
    /\ posting_job' = None
    /\ _low_content_warned' = {}
    /\ _last_send_error' = NoError
    /\ monitor' = NoMonitor
    /\ op' = [TimerOp(j, outcome, hour) EXCEPT !.name = "crash"]
    /\ UNCHANGED << CONFIG, channels_list, files, dirs, now, selections, boot,
                    albumVars >>

NextCrash ==
    \/ \E j \in JobIds, hour \in HourSamples : TimerFire(j, hour)
    \/ \E j \in JobIds : TickVerify(j)
    \/ \E j \in JobIds, res \in {"ok"} \cup SendErrors : TickSendDone(j, res)
    \/ \E j \in JobIds : TickAlertDone(j)
    \/ Advance
    \/ \E j \in JobIds, hour \in HourSamples, outcome \in CrashOutcomes :
           CrashInSave(j, hour, outcome)
    \/ RestartProcess

SpecCrash == Init /\ [][NextCrash]_vars

\* the process is killed while a tick is between get_next_channel, which
\* has saved the advanced index, and the end of post_and_delete
CrashInTick(j) ==
    /\ tick[j].pc \in {"selected", "sending"}
    /\ events < MaxEvents
    /\ events' = events + 1
    /\ job_queue' = [q \in JobIds |-> None]
    /\ tick' = [q \in JobIds |-> IdleTick]
    /\ current_channel_index' = 0
    /\ is_posting' = FALSE
    /\ last_post_time' = None
    /\ posting_job' = None
    /\ _low_content_warned' = {}
    /\ _last_send_error' = NoError
    /\ monitor' = NoMonitor
    /\ op' = Op("crash_in_tick", j, tick[j].channel_key)
    /\ UNCHANGED << CONFIG, channels_list, STATE_FILE, files, dirs, now,
                    selections, boot, albumVars >>

\* the process is started again after a crash
RestartAfterCrash ==
    /\ \A j \in JobIds : job_queue[j] = None
    /\ Restart

NextCrashTick ==
    \/ \E j \in JobIds, hour \in HourSamples : TimerFire(j, hour)
    \/ \E j \in JobIds : TickVerify(j)
    \/ \E j \in JobIds, res \in {"ok"} \cup SendErrors : TickSendDone(j, res)
    \/ \E j \in JobIds : TickAlertDone(j)
    \/ Advance
    \/ \E j \in JobIds : CrashInTick(j)
    \/ RestartAfterCrash

SpecCrashTick == Init /\ [][NextCrashTick]_vars

\* ---- a _save_state that raises (disk full, no permission) ----
\* what a failed write_text leaves in STATE_FILE: the file as it was (open
\* failed) or a truncated file (the write failed)
FileAfterFailedSave(file) == {file, TornFile}

\* a callback that raises takes the process down with it
QueueAfterFatal(queue, j) == [q \in JobIds |-> None]

\* run_repeating: an exception of the callback is logged by the JobQueue;
\* the job stays scheduled
QueueAfterRaise(queue, j) == QueueAfterRun(queue, j)

\* _posting_tick whose get_next_channel raises in _save_state: the index is
\* advanced in memory, no channel is handed out, the tick ends
TimerFireSaveFails(j, hour) ==
    /\ Quiescent
    /\ events < MaxEvents
    /\ events' = events + 1
    /\ job_queue[j] # None
    /\ job_queue[j] <= now
    /\ ~SkipsRun(j)
    /\ InWindow(hour)
    /\ channels_list # << >>
    /\ job_queue' = QueueAfterRaise(job_queue, j)
    /\ current_channel_index' = NextIndex(current_channel_index,
                                          Len(channels_list))
    /\ STATE_FILE' \in FileAfterFailedSave(STATE_FILE)
    /\ op' = TimerOp(j, "save_failed", hour)
    /\ UNCHANGED << CONFIG, channels_list, is_posting, last_post_time,
                    posting_job, _low_content_warned, _last_send_error, files,
                    dirs, now, tick, selections, monitor, boot, albumVars >>

\* post_and_delete whose _save_state raises after a successful send: the
\* asset is deleted and the publish time set in memory, the tick ends
TickSendDoneSaveFails(j) ==
    /\ Quiescent
    /\ tick[j].pc = "sending"
    /\ events < MaxEvents
    /\ events' = events + 1
    /\ LET tree == TreeAfterPublish(files, dirs, tick[j].img)
       IN  /\ files' = tree.files
           /\ dirs' = tree.dirs
    /\ _last_send_error' = NoError
    /\ last_post_time' = TimeAfterPublish(now, last_post_time)
    /\ STATE_FILE' \in FileAfterFailedSave(STATE_FILE)
    /\ tick' = [tick EXCEPT ![j] = IdleTick]
    /\ op' = Op("send_done", j, "save_failed")
    /\ UNCHANGED << CONFIG, channels_list, current_channel_index, is_posting,
                    posting_job, _low_content_warned, now, job_queue,
                    selections, monitor, boot, albumVars >>

NextSaveFails ==
    \/ \E j \in JobIds, hour \in HourSamples : TimerFire(j, hour)
    \/ \E j \in JobIds : TickVerify(j)
    \/ \E j \in JobIds, res \in {"ok"} \cup SendErrors : TickSendDone(j, res)
    \/ \E j \in JobIds : TickAlertDone(j)
    \/ Advance
    \/ \E j \in JobIds, hour \in HourSamples : TimerFireSaveFails(j, hour)
    \/ \E j \in JobIds : TickSendDoneSaveFails(j)

SpecSaveFails == Init /\ [][NextSaveFails]_vars

\* ---- /post_now: a publish by hand, next to the ticks of the job ----
\* the coroutine of cmd_post_now is kept in the slot of a job that is never
\* scheduled; updates are handled one after the other, so one is in flight
ManualSlot == MaxJobs

\* context.args of /post_now: none, or a channel key
PostNowArgs == {"", "a", "x"}

\* cmd_post_now up to the await of the send in post_and_delete
PostNow(arg) ==
    /\ Quiescent
    /\ tick[ManualSlot].pc = "idle"
    /\ job_queue[ManualSlot] = None
    /\ CONFIG # Cleared
    /\ events < MaxEvents
    /\ events' = events + 1
    /\ UNCHANGED << CONFIG, channels_list, is_posting, last_post_time,
                    posting_job, _low_content_warned, _last_send_error, files,
                    dirs, now, job_queue, monitor, boot, albumVars >>
    /\ IF arg # "" /\ arg \notin {CONFIG[i].key : i \in 1 .. Len(CONFIG)}
       THEN /\ op' = Op("post_now", ManualSlot, "not_found")
            /\ UNCHANGED << current_channel_index, STATE_FILE, selections, tick >>
       ELSE IF arg = "" /\ channels_list = << >>
       THEN /\ op' = Op("post_now", ManualSlot, "no_channels")
            /\ UNCHANGED << current_channel_index, STATE_FILE, selections, tick >>
       ELSE LET ch == IF arg = "" THEN channels_list[current_channel_index + 1]
                      ELSE arg
                idx == NextIndex(current_channel_index, Len(channels_list))
            IN  /\ IF arg = ""
                   THEN /\ Len(selections) < MaxSelections
                        /\ current_channel_index' = idx
                        /\ STATE_FILE' = SaveAfterSelect(idx, is_posting,
                                                         last_post_time, STATE_FILE)
                        /\ selections' = Append(selections, ch)
                   ELSE UNCHANGED << current_channel_index, STATE_FILE,
                                     selections >>
                /\ IF Images(files, dirs, ch) = {}
                   THEN /\ op' = Op("post_now", ManualSlot, "no_content")
                        /\ tick' = tick
                   ELSE /\ \E img \in Images(files, dirs, ch) :
                             tick' = [tick EXCEPT ![ManualSlot] =
                                        [IdleTick EXCEPT !.pc = "sending",
                                                         !.channel_key = ch,
                                                         !.img = img]]
                        /\ op' = Op("post_now", ManualSlot, "sending")

\* cmd_post_now: the send returns, the rest of post_and_delete and the reply
PostNowSendDone(res) ==
    /\ Quiescent
    /\ job_queue[ManualSlot] = None
    /\ tick[ManualSlot].pc = "sending"
    /\ tick' = [tick EXCEPT ![ManualSlot] = IdleTick]
    /\ UNCHANGED << CONFIG, channels_list, current_channel_index, is_posting,
                    posting_job, _low_content_warned, now, job_queue,
                    selections, monitor, boot, events, albumVars >>
    /\ IF res = "ok"
       THEN LET tree == TreeAfterPublish(files, dirs, tick[ManualSlot].img)
                lpt == TimeAfterPublish(now, last_post_time)
            IN  /\ _last_send_error' = NoError
                /\ files' = tree.files
                /\ dirs' = tree.dirs
                /\ last_post_time' = lpt
                /\ STATE_FILE' = _save_state(current_channel_index, is_posting, lpt)
                /\ op' = Op("post_now_done", ManualSlot, "ok")
       ELSE /\ _last_send_error' = res
            /\ UNCHANGED << files, dirs, last_post_time, STATE_FILE >>
            /\ op' = Op("post_now_done", ManualSlot,
                        IF tick[ManualSlot].img \notin files THEN "raised"
                        ELSE "send_failed")

NextPostNow ==
    \/ \E hour \in HourSamples : TimerFire(1, hour)
    \/ TickVerify(1)
    \/ \E res \in {"ok"} \cup SendErrors : TickSendDone(1, res)
    \/ TickAlertDone(1)
    \/ Advance
    \/ \E arg \in PostNowArgs : PostNow(arg)
    \/ \E res \in {"ok"} \cup SendErrors : PostNowSendDone(res)

\* the bot started with a state file of a publish at time 0
InitPostNow ==
    \E tree \in InitTrees : Startup(BaseConfig, _save_state(0, TRUE, 0), tree)

SpecPostNow == InitPostNow /\ [][NextPostNow]_vars


(***************************************************************************)
(* ContentUploader: the album aggregator.  handle_album_message buffers    *)
(* the messages of a media group and (re)arms a run_once job; the job      *)
(* runs _process_album, which pops the batch and saves its items one       *)
(* after the other with save_file.  save_file suspends in bot.get_file     *)
(* and in download_to_drive; _process_album is cut at these two points.    *)
(***************************************************************************)
\* media_group_id values
Groups == {"g1", "g2"}

\* album messages received
MaxItems == 2

\* run_once jobs and _process_album coroutines that can exist at a time
MaxOnce == 2

OnceIds == 1 .. MaxOnce

\* handle_album_message: when=2
QuietPeriod == 2

\* random.randint(1000, 9999), sampled at its two ends
RidSamples == {1000, 9999}

\* captions, as the words caption.split() yields
Captions == {<< >>, << "look", "#A1" >>, << "#zz" >>}

\* word.startswith("#")
StartsWithHash(word) == word \in {"#a1", "#A1", "#b2", "#B2", "#c3", "#zz"}

\* str.lower
\* the words of the sample texts that hold upper-case letters
UpperWords ==
    [Chat |-> "chat", Forbidden |-> "forbidden", Wrong |-> "wrong",
     INVALID |-> "invalid", Invalid |-> "invalid", Too |-> "too",
     Large |-> "large", Many |-> "many", Requests |-> "requests",
     File |-> "file", Flood |-> "flood", Timed |-> "timed", Bad |-> "bad",
     Request |-> "request", Entity |-> "entity", PHOTO |-> "photo",
     DIMENSIONS |-> "dimensions", API |-> "api"]

lower(word) ==
    CASE word = "#A1" -> "#a1"
      [] word = "#B2" -> "#b2"
      [] word \in DOMAIN UpperWords -> UpperWords[word]
      [] OTHER -> word

ErrNoHashtag == "no hashtag in caption"

ErrUnknownHashtag == "hashtag not in configuration"

\* str(e) of what get_file / download_to_drive raise
FetchErrors == {"get_file failed"}

DownloadErrors == {"download failed"}

\* save_file: the first word of the caption that starts with "#"
FirstHashtag(caption) ==
    LET tags == SelectSeq(caption, StartsWithHash)
    IN  IF tags = << >> THEN "" ELSE Head(tags)

CatEntries(ch) ==
    [i \in 1 .. Len(ch.categories) |->
        [found |-> TRUE, channel_key |-> ch.key,
         category |-> ch.categories[i].folder_name,
         hashtags |-> ch.categories[i].hashtags]]

RECURSIVE AllCategories(_)
\* the (channel, category) pairs in the order find_category_by_hashtag
\* visits them
AllCategories(cfg) ==
    IF cfg = << >> THEN << >>
    ELSE CatEntries(Head(cfg)) \o AllCategories(Tail(cfg))

NoCategory == [found |-> FALSE, channel_key |-> "", category |-> "",
               hashtags |-> << >>]

find_category_by_hashtag(cfg, hashtag) ==
    LET hit == SelectSeq(AllCategories(cfg),
                         LAMBDA e : \E i \in 1 .. Len(e.hashtags) :
                                       lower(e.hashtags[i]) = lower(hashtag))
    IN  IF hit = << >> THEN NoCategory ELSE Head(hit)

\* the results of save_file
NoResult == [kind |-> "none", error |-> "", channel |-> "", category |-> ""]

ErrorResult(text) == [kind |-> "error", error |-> text, channel |-> "",
                      category |-> ""]

SavedResult(channel, category) ==
    [kind |-> "saved", error |-> "", channel |-> channel, category |-> category]

\* save_file up to target.mkdir: the error it returns, or the target
SaveTarget(cfg, caption) ==
    LET hashtag == FirstHashtag(caption)
        cat_info == find_category_by_hashtag(cfg, hashtag)
    IN  IF hashtag = "" THEN [error |-> ErrNoHashtag, dir |-> << >>, cat |-> NoCategory]
        ELSE IF ~cat_info.found
        THEN [error |-> ErrUnknownHashtag, dir |-> << >>, cat |-> NoCategory]
        ELSE [error |-> "", dir |-> << cat_info.channel_key, cat_info.category >>,
              cat |-> cat_info]

\* save_file: find_category_by_hashtag raises KeyError on CONFIG["channels"]
\* when CONFIG was cleared; it is called for a caption with a hashtag
LookupRaises(cfg, caption) == cfg = Cleared /\ FirstHashtag(caption) # ""

\* save_file: target.mkdir(parents=True, exist_ok=True) raises
\* FileExistsError when the target or one of its parents is a regular file
MkdirRaises(fs, dir) ==
    \E f \in fs : /\ Len(f.name.stem) = 1
                  /\ f.name.c = 0
                  /\ f.name.ext = ""
                  /\ Append(f.dir, f.name.stem[1]) \in Ancestors(dir)

\* f"{category}_{ts}_{rid}{ext}"
UploadName(category, ts, rid, ext) == FName(<< category, ts, rid >>, 0, ext)

\* a generate_unique_filename that tries the suffix 1 only
FirstSuffixOnly(fs, directory, filename) ==
    IF File(directory, filename) \notin fs THEN filename
    ELSE [filename EXCEPT !.c = 1]

\* generate_unique_filename
generate_unique_filename(fs, directory, filename) ==
    IF File(directory, filename) \notin fs THEN filename
    ELSE LET taken(c) == File(directory, [filename EXCEPT !.c = c]) \in fs
             c == Min({k \in 1 .. Cardinality(fs) + 1 : ~taken(k)})
         IN  [filename EXCEPT !.c = c]

\* _extract_file_info of a photo message
PhotoExt == ".jpg"

NoName == FName(<< >>, 0, "")

\* the locals of a _process_album coroutine
NewTask(group_id, messages, caption) ==
    [group |-> group_id, messages |-> messages, caption |-> caption, i |-> 1,
     saved |-> 0, errors |-> 0, last_result |-> NoResult, pc |-> "loop",
     dir |-> << >>, cat |-> NoCategory, fname |-> NoName]

\* the single reply of _process_album, sent in answer to the first message
AlbumReply(task) ==
    LET last == task.last_result
    IN  IF task.saved > 0
        THEN [group |-> task.group, to |-> task.messages[1].id, ok |-> TRUE,
              saved |-> task.saved, errors |-> task.errors,
              channel |-> IF last.kind = "saved" THEN last.channel ELSE "?",
              category |-> IF last.kind = "saved" THEN last.category ELSE "?",
              text |-> ""]
        ELSE [group |-> task.group, to |-> task.messages[1].id, ok |-> FALSE,
              saved |-> task.saved, errors |-> task.errors,
              channel |-> "", category |-> "",
              text |-> IF last.kind = "error" THEN last.error ELSE "unknown error"]

\* the item loop of _process_album, entered or resumed by the coroutine of
\* job jid with locals `task`: up to the next bot.get_file, or to the reply.
\* The caption is the same for every item, so an item that save_file turns
\* down before its first suspension is followed by the rest of the batch.
AlbumLoop(jid, task) ==
    LET target == SaveTarget(CONFIG, task.caption)
        left == Len(task.messages) - task.i + 1
        done == IF left > 0 /\ target.error # ""
                THEN [task EXCEPT !.errors = @ + left,
                                  !.last_result = ErrorResult(target.error),
                                  !.i = Len(task.messages) + 1]
                ELSE task
    IN  IF \/ left > 0 /\ LookupRaises(CONFIG, task.caption)
           \/ left > 0 /\ target.error = "" /\ MkdirRaises(files, target.dir)
           \/ left <= 0 /\ task.saved > 0 /\ CONFIG = Cleared
        THEN \* the exception leaves save_file and _process_album: the
             \* coroutine ends, the rest of the batch is not attempted and
             \* no reply is sent
             /\ album_task' = Drop(album_task, jid)
             /\ replies' = replies
             /\ dirs' = dirs
        ELSE IF done.i > Len(task.messages)
        THEN /\ album_task' = Drop(album_task, jid)
             /\ replies' = Append(replies, AlbumReply(done))
             /\ dirs' = dirs
        ELSE /\ album_task' = Put(album_task, jid,
                                  [task EXCEPT !.pc = "get_file", !.dir = target.dir,
                                               !.cat = target.cat])
             /\ dirs' = dirs \cup Ancestors(target.dir)
             /\ replies' = replies

\* an ingest that arms a new timer and leaves the previous one armed
QueueWithoutReset(queue, timers, group_id) == queue

\* handle_album_message: self._album_timers[group_id].schedule_removal()
QueueAfterReset(queue, timers, group_id) ==
    IF group_id \in DOMAIN timers THEN Drop(queue, timers[group_id]) ELSE queue

\* a flush that empties the buffer of every media group
BufferCleared(buffer, group_id) == NoEntries

\* _process_album: self._album_buffer.pop(group_id, [])
BufferAfterPop(buffer, group_id) == Drop(buffer, group_id)

\* what the uploader leaves alone
notAlbum == << CONFIG, posterVars, STATE_FILE, job_queue, tick, selections,
               monitor, boot, events >>

handle_album_message(group_id, caption) ==
    /\ Len(arrivals) < MaxItems
    /\ LET msg == [id |-> Len(arrivals) + 1, caption |-> caption]
           old == IF group_id \in DOMAIN _album_buffer
                  THEN _album_buffer[group_id] ELSE << >>
           queue == QueueAfterReset(once_queue, _album_timers, group_id)
           free == OnceIds \ (DOMAIN queue \cup DOMAIN album_task)
       IN  /\ free # {}
           /\ _album_buffer' = Put(_album_buffer, group_id, Append(old, msg))
           /\ once_queue' = Put(queue, Min(free),
                                [data |-> group_id, due |-> now + QuietPeriod])
           /\ _album_timers' = Put(_album_timers, group_id, Min(free))
           /\ arrivals' = Append(arrivals, [group |-> group_id, t |-> now])
    /\ op' = Op("handle_album_message", 0, group_id)
    /\ UNCHANGED << notAlbum, files, dirs, now, album_task, flushes, replies >>

\* a flush that takes the caption of the first item, captioned or not
HeadCaption(messages) ==
    IF messages = << >> THEN << >> ELSE Head(messages).caption

\* _process_album: the caption of the first message that has one
FirstCaption(messages) ==
    LET captioned == SelectSeq(messages, LAMBDA m : m.caption # << >>)
    IN  IF captioned = << >> THEN << >> ELSE Head(captioned).caption

\* the run_once job jid is due: _process_album up to its first suspension
_process_album(jid) ==
    /\ jid \in DOMAIN once_queue
    /\ once_queue[jid].due <= now
    /\ LET group_id == once_queue[jid].data
           messages == IF group_id \in DOMAIN _album_buffer
                       THEN _album_buffer[group_id] ELSE << >>
           caption == FirstCaption(messages)
       IN  /\ once_queue' = Drop(once_queue, jid)
           /\ _album_buffer' = BufferAfterPop(_album_buffer, group_id)
           /\ _album_timers' = Drop(_album_timers, group_id)
           /\ op' = Op("process_album", jid, group_id)
           /\ IF messages = << >>
              THEN UNCHANGED << album_task, dirs, replies, flushes >>
              ELSE /\ flushes' = Append(flushes,
                                   [group |-> group_id,
                                    items |-> [k \in 1 .. Len(messages) |->
                                                  messages[k].id],
                                    t |-> now])
                   /\ AlbumLoop(jid, NewTask(group_id, messages, caption))
    /\ UNCHANGED << notAlbum, files, now, arrivals >>


\* msg.media_group_id of a message that belongs to no album
NoGroup == "none"

\* key of the handle_media coroutine of a single submission
SingleId == 0

\* a reply to a single submission that leaves the category out
ReplyWithoutCategory(msg, result) ==
    IF result.kind = "error"
    THEN [group |-> NoGroup, to |-> msg.id, ok |-> FALSE, saved |-> 0,
          errors |-> 1, channel |-> "", category |-> "", text |-> result.error]
    ELSE [group |-> NoGroup, to |-> msg.id, ok |-> TRUE, saved |-> 1,
          errors |-> 0, channel |-> result.channel, category |-> "?",
          text |-> ""]

\* handle_media: the reply to a single submission, from the result of
\* save_file
SingleReply(msg, result) ==
    IF result.kind = "error"
    THEN [group |-> NoGroup, to |-> msg.id, ok |-> FALSE, saved |-> 0,
          errors |-> 1, channel |-> "", category |-> "", text |-> result.error]
    ELSE [group |-> NoGroup, to |-> msg.id, ok |-> TRUE, saved |-> 1,
          errors |-> 0, channel |-> result.channel,
          category |-> result.category, text |-> ""]

\* handle_media after `result = await up.save_file(...)`, with the result in
\* task.last_result
SingleFinish(jid, task) ==
    /\ album_task' = Drop(album_task, jid)
    /\ dirs' = dirs
    /\ IF task.last_result.kind = "saved" /\ CONFIG = Cleared
       THEN \* CONFIG["channels"] raises: no reply
            replies' = replies
       ELSE replies' = Append(replies,
                              SingleReply(task.messages[1], task.last_result))

\* handle_media for a message without media_group_id: save_file up to its
\* first suspension, or to the reply when it returns before
handle_media(caption) ==
    /\ SingleId \notin DOMAIN album_task
    /\ Len(arrivals) < MaxItems
    /\ LET msg == [id |-> Len(arrivals) + 1, caption |-> caption]
           target == SaveTarget(CONFIG, caption)
       IN  /\ arrivals' = Append(arrivals, [group |-> NoGroup, t |-> now,
                                            caption |-> caption])
           /\ IF \/ LookupRaises(CONFIG, caption)
                 \/ target.error = "" /\ MkdirRaises(files, target.dir)
              THEN \* the exception leaves save_file and handle_media
                   UNCHANGED << album_task, dirs, replies >>
              ELSE IF target.error # ""
              THEN /\ replies' = Append(replies,
                                        SingleReply(msg, ErrorResult(target.error)))
                   /\ UNCHANGED << album_task, dirs >>
              ELSE /\ album_task' =
                         Put(album_task, SingleId,
                             [NewTask(NoGroup, << msg >>, caption) EXCEPT
                                 !.pc = "get_file", !.dir = target.dir,
                                 !.cat = target.cat])
                   /\ dirs' = dirs \cup Ancestors(target.dir)
                   /\ replies' = replies
    /\ op' = Op("handle_media", SingleId, "single")
    /\ UNCHANGED << notAlbum, files, now, _album_buffer, _album_timers,
                    once_queue, flushes >>

\* where save_file returns to: handle_media, or the loop of _process_album
AfterSave(jid, task) ==
    IF task.group = NoGroup THEN SingleFinish(jid, task)
    ELSE AlbumLoop(jid, task)

\* save_file: bot.get_file returned (res = "ok") or raised
GetFileDone(jid, res, rid) ==
    /\ jid \in DOMAIN album_task
    /\ album_task[jid].pc = "get_file"
    /\ op' = Op("get_file_done", jid, res)
    /\ UNCHANGED << notAlbum, files, now, _album_buffer, _album_timers,
                    once_queue, arrivals, flushes >>
    /\ LET task == album_task[jid]
       IN  IF res = "ok"
           THEN /\ album_task' =
                      [album_task EXCEPT
                          ![jid].pc = "download",
                          ![jid].fname =
                              generate_unique_filename(files, task.dir,
                                  UploadName(task.cat.category, now, rid, PhotoExt))]
                /\ UNCHANGED << dirs, replies >>
           ELSE AfterSave(jid, [task EXCEPT !.errors = @ + 1,
                                            !.last_result = ErrorResult(res),
                                            !.i = @ + 1])

\* save_file: download_to_drive returned (res = "ok") or raised
DownloadDone(jid, res) ==
    /\ jid \in DOMAIN album_task
    /\ album_task[jid].pc = "download"
    /\ op' = Op("download_done", jid, res)
    /\ UNCHANGED << notAlbum, now, _album_buffer, _album_timers,
                    once_queue, arrivals, flushes >>
    /\ LET task == album_task[jid]
       IN  IF res = "ok"
           THEN /\ files' = files \cup {File(task.dir, task.fname)}
                /\ AfterSave(jid, [task EXCEPT
                                      !.saved = @ + 1,
                                      !.last_result =
                                          SavedResult(task.cat.channel_key,
                                                      task.cat.category),
                                      !.i = @ + 1])
           ELSE /\ files' = files
                /\ AfterSave(jid, [task EXCEPT !.errors = @ + 1,
                                               !.last_result = ErrorResult(res),
                                               !.i = @ + 1])

\* the uploader next to a stopped scheduler, with the files fs and the
\* directories ds in the content tree
UploaderStart(fs, ds) ==
    /\ CONFIG = BaseConfig
    /\ channels_list = get_enabled_channels(BaseConfig)
    /\ current_channel_index = 0
    /\ is_posting = FALSE
    /\ last_post_time = None
    /\ posting_job = None
    /\ _low_content_warned = {}
    /\ _last_send_error = NoError
    /\ STATE_FILE = _save_state(0, FALSE, None)
    /\ files = fs
    /\ dirs = ds
    /\ now = 0
    /\ job_queue = [j \in JobIds |-> None]
    /\ tick = [j \in JobIds |-> IdleTick]
    /\ op = Op("stop_posting", 0, "true")
    /\ selections = << >>
    /\ monitor = NoMonitor
    /\ boot = NoFile
    /\ events = 0
    /\ _album_buffer = NoEntries
    /\ _album_timers = NoEntries
    /\ once_queue = NoEntries
    /\ album_task = NoEntries
    /\ arrivals = << >>
    /\ flushes = << >>
    /\ replies = << >>

\* the uploader next to a stopped scheduler and an empty content tree
InitAlbum == UploaderStart({}, {})

NextAlbum ==
    \/ \E g \in Groups, caption \in Captions : handle_album_message(g, caption)
    \/ \E jid \in OnceIds : _process_album(jid)
    \/ \E jid \in OnceIds, res \in {"ok"} \cup FetchErrors, rid \in RidSamples :
          GetFileDone(jid, res, rid)
    \/ \E jid \in OnceIds, res \in {"ok"} \cup DownloadErrors : DownloadDone(jid, res)
    \/ Advance

SpecAlbum == InitAlbum /\ [][NextAlbum]_vars

(***************************************************************************)
(* The album aggregator where save_file can raise: /reload with a          *)
(* config.json that does not parse leaves CONFIG cleared, and the content  *)
(* tree can hold a regular file named as a category directory.             *)
(***************************************************************************)
\* a regular file content/a/c1
BlockingFile == File(<< "a" >>, FName(<< "c1" >>, 0, ""))

InitAlbumFaults ==
    \E fs \in {{}, {BlockingFile}} : UploaderStart(fs, DirsOf(fs))

NextAlbumFaults ==
    \/ NextAlbum
    \/ \E cfg \in {BaseConfig, Cleared} : Reload(cfg)

SpecAlbumFaults == InitAlbumFaults /\ [][NextAlbumFaults]_vars

\* single submissions, with the same faults
NextSingle ==
    \/ \E caption \in Captions : handle_media(caption)
    \/ \E res \in {"ok"} \cup FetchErrors, rid \in RidSamples :
          GetFileDone(SingleId, res, rid)
    \/ \E res \in {"ok"} \cup DownloadErrors : DownloadDone(SingleId, res)
    \/ Advance
    \/ \E cfg \in {BaseConfig, Cleared} : Reload(cfg)

SpecSingle == InitAlbumFaults /\ [][NextSingle]_vars


\* ---- failure classification of a tick (_posting_tick, diagnostics) ----
\* A text is a sequence of words; a pattern occurs in a text when its words
\* occur there one after the other.

LowerAll(text) == [i \in 1 .. Len(text) |-> lower(text[i])]

Contains(text, pattern) ==
    \E i \in 0 .. Len(text) - Len(pattern) :
        \A k \in 1 .. Len(pattern) : text[i + k] = pattern[k]

NoHint == ""

ApiHints ==
    << [patterns |-> {<< "chat", "not", "found" >>},
        hint |-> "bot not added to the channel or wrong channel_id"],
       [patterns |-> {<< "bot", "was", "kicked" >>,
                      << "bot", "is", "not", "a", "member" >>},
        hint |-> "bot removed from the channel"],
       [patterns |-> {<< "forbidden" >>},
        hint |-> "no right to publish"],
       [patterns |-> {<< "wrong", "file", "identifier" >>, << "invalid" >>},
        hint |-> "file damaged or format unsupported"],
       [patterns |-> {<< "too", "large" >>, << "file", "is", "too", "big" >>},
        hint |-> "file too large"],
       [patterns |-> {<< "flood" >>, << "too", "many", "requests" >>},
        hint |-> "request limit exceeded"] >>

\* the hint of the first entry of the table one of whose patterns occurs
FirstHint(table, text) ==
    LET hits == {i \in 1 .. Len(table) :
                    \E p \in table[i].patterns : Contains(text, p)}
    IN  IF hits = {} THEN NoHint
        ELSE table[CHOOSE i \in hits : \A k \in hits : i <= k].hint

api_hint(reason, details) ==
    IF reason = "send_failed" THEN FirstHint(ApiHints, LowerAll(details))
    ELSE NoHint

reason_text(reason) ==
    CASE reason = "no_content" -> "content not found (0 files)"
      [] reason = "file_missing" -> "file vanished from the disk"
      [] reason = "send_failed" -> "error sending to the Telegram API"
      [] OTHER -> "unknown reason"

\* the details of a send_failed result: file name, size, category, API error
SendFailedDetails(f, api_err) ==
    << "file", ":" >> \o f.name.stem \o << f.name.ext >>
        \o << "(", "bytes", ")", ",", "category", ":", f.dir[3] >>
        \o << "API", "error", ":" >> \o api_err

ApiErrors ==
    {<< "Timed", "out" >>,
     << "Chat", "not", "found" >>,
     << "Forbidden", ":", "bot", "was", "kicked", "from", "the", "channel" >>,
     << "Forbidden", ":", "bot", "is", "not", "a", "member", "of", "the",
        "channel" >>,
     << "Forbidden", ":", "the", "bot", "has", "been", "kicked" >>,
     << "Forbidden", ":", "need", "administrator", "rights" >>,
     << "Wrong", "file", "identifier" >>,
     << "Bad", "Request", ":", "PHOTO", "_", "INVALID", "_", "DIMENSIONS" >>,
     << "Request", "Entity", "Too", "Large" >>,
     << "File", "is", "too", "big" >>,
     << "Flood", "control", "exceeded" >>,
     << "Too", "Many", "Requests", ":", "retry", "later" >>}

AssetStems == {<< "f" >>, << "flood" >>, << "Invalid" >>}

\* the results post_and_delete can return to the tick
FailedPosts ==
    {[result |-> NoContent, tree |-> {}, err |-> NoError],
     [result |-> FileMissing, tree |-> {}, err |-> NoError]}
    \cup {[result |-> Failure("send_failed", SendFailedDetails(f, e)),
           tree |-> {f}, err |-> e] :
             f \in {File(AssetDir(ch), FName(st, 0, ".jpg")) :
                       ch \in {"a", "b"}, st \in AssetStems},
             e \in ApiErrors}

\* the diagnostics block of _posting_tick, applied to a failed result
Diagnose ==
    /\ op.name = "post_and_delete"
    /\ op' = [Op("diagnose", 0, op.ret) EXCEPT
                 !.diag = [reason_text |-> reason_text(op.ret),
                           api_hint |-> api_hint(op.ret, op.diag),
                           details |-> op.diag]]
    /\ UNCHANGED << CONFIG, posterVars, STATE_FILE, files, dirs, now,
                    job_queue, tick, selections, monitor, boot, events,
                    albumVars >>

InitClassify ==
    \E p \in FailedPosts :
        /\ CONFIG = BaseConfig
        /\ channels_list = get_enabled_channels(BaseConfig)
        /\ current_channel_index = 0
        /\ is_posting = TRUE
        /\ last_post_time = None
        /\ posting_job = None
        /\ _low_content_warned = {}
        /\ _last_send_error = p.err
        /\ STATE_FILE = _save_state(0, TRUE, None)
        /\ files = p.tree
        /\ dirs = DirsOf(p.tree)
        /\ now = 0
        /\ job_queue = [j \in JobIds |-> None]
        /\ tick = [j \in JobIds |-> IdleTick]
        /\ op = [Op("post_and_delete", 0, p.result.reason) EXCEPT
                    !.diag = p.result.details]
        /\ selections = << >>
        /\ monitor = NoMonitor
        /\ boot = NoFile
        /\ events = 0
        /\ _album_buffer = NoEntries
        /\ _album_timers = NoEntries
        /\ once_queue = NoEntries
        /\ album_task = NoEntries
        /\ arrivals = << >>
        /\ flushes = << >>
        /\ replies = << >>

NextClassify == Diagnose

SpecClassify == InitClassify /\ [][NextClassify]_vars

(***************************************************************************)
(* Writes of save_file that follow one another: each one chooses its name  *)
(* with generate_unique_filename and stores the asset before the next one  *)
(* begins.  The category directory already holds some assets.              *)
(***************************************************************************)
WriteDir == << "a", "c1" >>

\* the name save_file suggests for an asset of category c1
Suggested(ts, rid) == UploadName("c1", ts, rid, PhotoExt)

\* names the category directory can hold at the start: suggested names of
\* the first second, plain or with a collision counter
ExistingNames ==
    {File(WriteDir, [Suggested(0, rid) EXCEPT !.c = c]) :
        rid \in RidSamples, c \in 0 .. MaxFiles}

\* save_file from the choice of the name to the stored file
WriteAsset(rid) ==
    /\ events < MaxEvents
    /\ events' = events + 1
    /\ LET fname == generate_unique_filename(files, WriteDir, Suggested(now, rid))
       IN  /\ files' = files \cup {File(WriteDir, fname)}
           /\ dirs' = dirs \cup Ancestors(WriteDir)
    /\ op' = Op("write", 0, "saved")
    /\ UNCHANGED << CONFIG, posterVars, STATE_FILE, now, job_queue, tick,
                    selections, monitor, boot, albumVars >>

InitNames == \E fs \in SUBSET ExistingNames : UploaderStart(fs, DirsOf(fs))

NextNames ==
    \/ \E rid \in RidSamples : WriteAsset(rid)
    \/ Advance

SpecNames == InitNames /\ [][NextNames]_vars


(***************************************************************************)
(* cleanup_empty_dirs on any content tree: assets and other files in       *)
(* category, channel and month directories, package_info.json, empty       *)
(* directories, and the directories save_file writes to.                   *)
(***************************************************************************)
Note == FName(<< "notes" >>, 0, ".txt")

TreeFiles ==
    {File(AssetDir("a"), AssetName(1)), File(AssetDir("b"), AssetName(1)),
     File(AssetDir("a"), Note), File(Parent(AssetDir("a")), Note),
     File(<< "2024-01" >>, Note), File(<< "2024-01" >>, PackageInfo),
     File(<< "2024-01" >>, AssetName(1)),
     File(WriteDir, Suggested(0, 1000))}

TreeDirs == DirsOf(TreeFiles) \cup {AssetDir("b") \o << "sub" >>}

\* cleanup_empty_dirs, called on its own
Cleanup ==
    /\ events < MaxEvents
    /\ events' = events + 1
    /\ LET tree == cleanup_empty_dirs(files, dirs)
       IN  /\ files' = tree.files
           /\ dirs' = tree.dirs
           \* op.job is 1 when the call follows, with no step between, a
           \* call that removed directories
           /\ op' = Op("cleanup",
                       IF op.name = "cleanup" /\ op.ret = "removed" THEN 1 ELSE 0,
                       IF tree.dirs # dirs THEN "removed" ELSE "nothing")
    /\ UNCHANGED << CONFIG, posterVars, STATE_FILE, now, job_queue, tick,
                    selections, monitor, boot, albumVars >>

InitTree ==
    \E fs \in SUBSET TreeFiles, ds \in SUBSET TreeDirs :
        UploaderStart(fs, DirsOf(fs) \cup UNION {Ancestors(d) : d \in ds})

NextTree ==
    \/ Cleanup
    \/ \E f \in files : ExternalRemove(f)

SpecTree == InitTree /\ [][NextTree]_vars


(***************************************************************************)
(* Properties of the scheduler.                                            *)
(***************************************************************************)
\* position (1-based) of a channel in channels_list
PosOf(ch) == CHOOSE i \in 1 .. Len(channels_list) : channels_list[i] = ch

\* how often channel ch is selected in selections[a .. b]
TimesSelected(ch, a, b) == Cardinality({i \in a .. b : selections[i] = ch})

\* the step just taken handed out a channel: a tick that passed the gate
PassedGate(o) == o.name = "timer" /\ o.ret \in {"no_content", "selected"}

\* the step just taken ended a tick with a result of post_and_delete
EndedWith(o, r) ==
    \/ o.name = "timer" /\ r = "no_content" /\ o.ret = r
    \/ o.name = "verify" /\ r = "file_missing" /\ o.ret = r
    \/ o.name = "send_done" /\ r \in {"ok", "send_failed"} /\ o.ret = r

\* C1: with a fixed list of N >= 1 enabled destinations, successive
\* selections of get_next_channel follow the list in strict cyclic order,
\* starting from the persisted index, and over any K successive selections
\* every destination is selected K div N or K div N + 1 times.
C1_RoundRobin ==
    LET n == Len(channels_list)
        k == Len(selections)
    IN  /\ \A i \in 1 .. k - 1 :
              selections[i + 1] = channels_list[(PosOf(selections[i]) % n) + 1]
        /\ (k >= 1 /\ boot.exists /\ boot.current_channel_index < n)
              => selections[1] = channels_list[boot.current_channel_index + 1]
        /\ \A a \in 1 .. k : \A b \in a .. k : \A i \in 1 .. n :
              TimesSelected(channels_list[i], a, b)
                  \in {(b - a + 1) \div n, ((b - a + 1) \div n) + 1}

C1_Witness ==
    /\ Len(selections) >= 3
    /\ boot.exists
    /\ boot.current_channel_index = 1
    /\ selections[1] = "b"

\* C2: a tick that passes the window gate with N >= 1 destinations advances
\* the rotation index by one (mod N) and persists it in the step that hands
\* out the destination, before the send starts; no later step of a tick,
\* whatever its outcome, changes the index or the persisted index back.
C2_AdvanceNoRollback ==
    [][ /\ PassedGate(op') =>
            /\ current_channel_index'
                   = (current_channel_index + 1) % Len(channels_list)
            /\ STATE_FILE'.exists
            /\ STATE_FILE'.current_channel_index = current_channel_index'
            /\ \A j \in JobIds : tick'[j].pc # "sending" \/ tick[j].pc = "sending"
        /\ (op'.name \in {"verify", "send_done"}) =>
            /\ current_channel_index' = current_channel_index
            /\ STATE_FILE'.current_channel_index = STATE_FILE.current_channel_index
            /\ STATE_FILE'.current_channel_index = current_channel_index'
      ]_vars

\* destinations [a, b], a holding one asset and b none: tick 1 published to
\* a, tick 2 ended no_content for b and left index 0
C2_Witness ==
    /\ boot = _save_state(0, TRUE, 0)
    /\ selections = << "a", "b" >>
    /\ op.name = "timer" /\ op.ret = "no_content"
    /\ last_post_time > 0
    /\ Assets(files, dirs) = {}
    /\ current_channel_index = 0
    /\ STATE_FILE.current_channel_index = 0

C4_RestartKeepsCadence ==
    [][ /\ ( /\ op'.name = "startup"
              /\ STATE_FILE.exists
              /\ STATE_FILE.last_post_time # None
              /\ 0 < now - STATE_FILE.last_post_time
              /\ now - STATE_FILE.last_post_time < IntervalSeconds ) =>
                /\ posting_job' # None
                /\ job_queue'[posting_job']
                       = STATE_FILE.last_post_time + IntervalSeconds
        /\ ( /\ op'.name = "start_posting"
              /\ op'.ret = "true"
              /\ last_post_time # None
              /\ 0 < now - last_post_time
              /\ now - last_post_time < IntervalSeconds ) =>
                /\ posting_job' # None
                /\ job_queue'[posting_job'] = last_post_time + IntervalSeconds
      ]_vars

C4_Witness ==
    /\ op.name = "startup"
    /\ last_post_time > 0
    /\ 0 < now - last_post_time
    /\ now - last_post_time < IntervalSeconds
    /\ job_queue[posting_job] = last_post_time + IntervalSeconds

\* ids of the album messages of media group g, in arrival order
ArrivalsOf(g) ==
    SelectSeq([i \in 1 .. Len(arrivals) |-> i], LAMBDA i : arrivals[i].group = g)

\* the batches _process_album popped for media group g, in order
FlushesOf(g) == SelectSeq(flushes, LAMBDA f : f.group = g)

\* ids of the messages of media group g still in the buffer
Pending(g) ==
    IF g \in DOMAIN _album_buffer
    THEN [k \in 1 .. Len(_album_buffer[g]) |-> _album_buffer[g][k].id]
    ELSE << >>

\* time between the arrivals of messages a and b
Gap(a, b) == arrivals[b].t - arrivals[a].t

\* the messages s[a .. b] arrived each less than the quiet period after the
\* one before
Burst(s, a, b) == \A k \in a .. b - 1 : Gap(s[k], s[k + 1]) < QuietPeriod

\* C5: N messages of one media group, each arriving less than the quiet
\* period Q after the previous one, are flushed exactly once, all N in
\* arrival order, Q after the last arrival and not before; if the Nth
\* arrives more than Q after message N-1 there are exactly two flushes, the
\* first with messages 1..N-1 and the second with message N.
C5_Debounce ==
    \A g \in Groups :
        LET s == ArrivalsOf(g)
            n == Len(s)
            fl == FlushesOf(g)
        IN  /\ (n >= 1 /\ Burst(s, 1, n) /\ Pending(g) # << >>) =>
                  /\ fl = << >>
                  /\ Pending(g) = s
                  /\ now <= arrivals[s[n]].t + QuietPeriod
            /\ (n >= 1 /\ Burst(s, 1, n) /\ Pending(g) = << >>) =>
                  /\ Len(fl) = 1
                  /\ fl[1].items = s
                  /\ fl[1].t = arrivals[s[n]].t + QuietPeriod
            /\ (n >= 2 /\ Burst(s, 1, n - 1) /\ Gap(s[n - 1], s[n]) > QuietPeriod
                   /\ Pending(g) = << >>) =>
                  /\ Len(fl) = 2
                  /\ fl[1].items = SubSeq(s, 1, n - 1)
                  /\ fl[2].items = << s[n] >>

\* a burst of two messages of one media group, a second apart, flushed once
C5_Witness ==
    \E g \in Groups :
        /\ Len(ArrivalsOf(g)) = 2
        /\ Gap(ArrivalsOf(g)[1], ArrivalsOf(g)[2]) = 1
        /\ Len(FlushesOf(g)) = 1
        /\ Len(FlushesOf(g)[1].items) = 2
        /\ Len(replies) = 1

\* two messages of one media group more than the quiet period apart, each
\* flushed on its own
TwoFlushes ==
    \E g \in Groups :
        /\ Len(ArrivalsOf(g)) = 2
        /\ Gap(ArrivalsOf(g)[1], ArrivalsOf(g)[2]) > QuietPeriod
        /\ Len(FlushesOf(g)) = 2

\* C6: alerts are edge-triggered: a check alerts a destination only when
\* it sees it below the threshold and the previous check (if any) did not,
\* and a finished check has alerted every such destination.
C6_EdgeTriggered ==
    /\ monitor.done => monitor.alerted = monitor.low \ monitor.prev
    /\ \A j \in JobIds :
          tick[j].pc = "alerting" => tick[j].cur \in tick[j].low \ tick[j].prev

\* C7: at most one tick executes at any time.
C7_AtMostOneTick == Cardinality({j \in JobIds : Running(j)}) <= 1

\* C8: while the scheduler is stopped no tick begins: no job of the queue
\* fires between a stop_posting and the next start_posting.
C8_NoTickAfterStop ==
    [][ ~is_posting => op'.name # "timer" ]_vars

C8_Witness ==
    /\ ~is_posting
    /\ op.name = "advance"
    /\ now >= 2 * IntervalSeconds
    /\ boot.exists

\* C9: start_posting while active and stop_posting while not running return
\* False and change neither the queue, the handle, the flag nor the
\* persisted state.
C9_RejectedWithoutEffect ==
    [][ ( \/ op'.name = "start_posting" /\ is_posting
          \/ op'.name = "stop_posting" /\ ~is_posting ) =>
            /\ op'.ret = "false"
            /\ UNCHANGED << job_queue, posting_job, is_posting, STATE_FILE,
                            current_channel_index, last_post_time, tick >>
      ]_vars

C9_Witness ==
    /\ op.name = "stop_posting"
    /\ op.ret = "false"
    /\ ~is_posting
    /\ \A j \in JobIds : job_queue[j] = None

\* C10: a tick fired at an hour outside [first_post_hour, last_post_hour)
\* changes nothing: index, last publish time, state file, content tree and
\* warned set stay as they are, nothing is selected or sent, nothing raised.
C10_GatedTickIsNoOp ==
    [][ ( /\ op'.name = "timer"
          /\ op'.ret # "dropped"
          /\ ~(FirstPostHour <= op'.hour /\ op'.hour < LastPostHour) ) =>
            /\ op'.ret = "gated"
            /\ UNCHANGED << current_channel_index, last_post_time, STATE_FILE,
                            files, dirs, _low_content_warned, _last_send_error,
                            tick, selections, monitor, is_posting, posting_job >>
      ]_vars

C10_Witness ==
    /\ op.name = "timer"
    /\ op.ret = "gated"
    /\ op.hour = LastPostHour
    /\ Len(selections) >= 1

\* the step just taken ended a tick that had passed the posting-window gate
EndedTick(o) ==
    \/ o.name = "timer" /\ o.ret \in {"no_channels", "no_content", "raised"}
    \/ o.name = "verify" /\ o.ret = "file_missing"
    \/ o.name = "send_done" /\ o.ret \in {"ok", "send_failed", "raised"}

\* the step just taken ended a tick whose publish failed
FailedTick(o) == EndedTick(o) /\ o.ret \notin {"ok", "no_channels"}

\* C11: every tick that passes the posting-window gate calls
\* _check_low_content, whatever the result of its publish.
C11_MonitorEveryTick ==
    [][ EndedTick(op') => op'.checked ]_vars

\* C12: every tick whose publish failed sends the admins a diagnostic
\* notification that holds the details of the failure; after a failed send
\* the details hold the error of the transport.
C12_FailureDiagnosed ==
    [][ FailedTick(op') =>
            /\ op'.diag # NoDiag
            /\ op'.name = "send_done" =>
                   \E i \in 1 .. Len(op'.diag) : op'.diag[i] = _last_send_error'
      ]_vars

\* C13: last_post_time changes only in the step that ends a publish with a
\* successful send; that step sets it to the current time and writes it to
\* the state file together with the index and the flag; a tick that is
\* gated out or ends with no_content, file_missing or send_failed leaves
\* last_post_time and the persisted last_post_time unchanged.
C13_TimeOnlyOnSuccess ==
    [][ /\ EndedWith(op', "ok") =>
            /\ last_post_time' = now
            /\ STATE_FILE' = _save_state(current_channel_index', is_posting',
                                         now)
        /\ ~EndedWith(op', "ok") =>
            /\ last_post_time' # last_post_time => op'.name = "startup"
            /\ op'.name = "startup" => last_post_time' = LoadedTime(STATE_FILE)
            /\ op'.name \in {"timer", "verify", "send_done", "alert_done"} =>
                   STATE_FILE'.last_post_time = STATE_FILE.last_post_time
      ]_vars

C13_Witness ==
    /\ op.name = "send_done" /\ op.ret = "ok"
    /\ now > IntervalSeconds
    /\ last_post_time = now
    /\ STATE_FILE.last_post_time = now
    /\ boot.exists
    /\ Len(selections) >= 2

\* C14 as stated: in every reachable state the index is a valid index into
\* the current list of enabled channels, 0 <= index < len(channels_list).
C14_IndexValid ==
    /\ 0 <= current_channel_index
    /\ current_channel_index < Len(channels_list)

\* C14, amended: in every reachable state the index is a valid index into
\* the list of enabled channels whenever that list is not empty, and it is
\* 0 when the list is empty; a reload after which the index is beyond the
\* new list resets it to 0, and any other reload keeps it.
C14_IndexValidOrEmpty ==
    /\ [](IF channels_list # << >>
          THEN C14_IndexValid
          ELSE current_channel_index = 0)
    /\ [][ (op'.name = "reload" /\ op'.ret = "ok") =>
               current_channel_index' =
                   IF current_channel_index < Len(channels_list')
                   THEN current_channel_index ELSE 0
         ]_vars

C14_Witness ==
    /\ op.name = "reload" /\ op.ret = "ok"
    /\ channels_list # << >>
    /\ current_channel_index = 0
    /\ STATE_FILE.current_channel_index >= Len(channels_list)
    /\ Len(selections) >= 1

\* C15: every step that changes the index, the flag or the last post time
\* in memory leaves STATE_FILE holding the same index, flag and last post
\* time.
C15_PersistedAfterMutation ==
    [][ << current_channel_index, is_posting, last_post_time >>' #
            << current_channel_index, is_posting, last_post_time >> =>
                STATE_FILE' = _save_state(current_channel_index', is_posting',
                                          last_post_time')
      ]_vars

\* C16: after a restart the index, the flag and the last post time in
\* memory are the ones STATE_FILE held before the restart.
C16_LoadedInFull ==
    [][ (op'.name = "startup" /\ STATE_FILE.exists) =>
            /\ current_channel_index' = STATE_FILE.current_channel_index
            /\ is_posting' = STATE_FILE.is_posting
            /\ last_post_time' = STATE_FILE.last_post_time
      ]_vars

\* C17: a crash during _save_state leaves STATE_FILE holding the complete
\* record it held before or the complete new record.
C17_AtomicWrite ==
    [][ op'.name = "crash" =>
            \/ STATE_FILE' = STATE_FILE
            \/ STATE_FILE' = _save_state(NextIndex(current_channel_index,
                                                   Len(channels_list)),
                                         is_posting, last_post_time)
      ]_vars

\* the assets save_file wrote that are still in the content tree
Uploaded(fs) == {f \in fs : f.name.stem # << >> /\ Len(f.name.stem) = 3}

\* the channels whose configuration holds the category folder of an asset
\* written by save_file
DestinationsOf(f) ==
    {CONFIG[i].key : i \in {k \in 1 .. Len(CONFIG) :
        \E c \in 1 .. Len(CONFIG[k].categories) :
            CONFIG[k].categories[c].folder_name = f.name.stem[1]}}

\* C18: every asset written by save_file for a channel and still in the
\* content tree is among the assets get_random_image picks from for that
\* channel, and is counted for it by get_content_stats.
C18_WrittenIsReadable ==
    \A f \in Uploaded(files) :
        \A ch \in DestinationsOf(f) :
            /\ f \in Images(files, dirs, ch)
            /\ ChannelTotal(files, dirs, ch) >= 1

(***************************************************************************)
(* Properties of the content tree.                                         *)
(***************************************************************************)
\* C19: a write of save_file stores one new file and leaves every file that
\* was there; the stored name is the suggested name when that is free, and
\* otherwise the suggested name with the smallest counter >= 1 that is free.
C19_NeverOverwrites ==
    [][ op'.name = "write" =>
            /\ files \subseteq files'
            /\ Cardinality(files' \ files) = 1
            /\ \A f \in files' \ files :
                   LET sug == [f.name EXCEPT !.c = 0]
                   IN  /\ f.dir = WriteDir
                       /\ \E rid \in RidSamples : sug = Suggested(now, rid)
                       /\ File(WriteDir, sug) \notin files => f.name = sug
                       /\ File(WriteDir, sug) \in files =>
                              /\ f.name.c >= 1
                              /\ \A k \in 1 .. f.name.c - 1 :
                                     File(WriteDir, [sug EXCEPT !.c = k]) \in files
      ]_vars

\* two writes with the same suggested name into the empty directory: both
\* assets are there, the second under the counter 1
C19_Witness ==
    /\ op.name = "write"
    /\ events = 2
    /\ \E rid \in RidSamples :
           files = {File(WriteDir, Suggested(now, rid)),
                    File(WriteDir, [Suggested(now, rid) EXCEPT !.c = 1])}

\* the files with a supported media extension, wherever they are
MediaFiles(fs) == {f \in fs : f.name.ext \in SUPPORTED_FORMATS}

\* the files below directory d, at any depth
FilesBelow(fs, d) == {f \in fs : d \in Ancestors(f.dir)}

\* C20: cleanup_empty_dirs, on any content tree, removes no asset and no
\* directory that holds an asset at any depth; it removes a month
\* directory only when no file but its package_info.json is below it; every
\* file it leaves is still in a directory.
C20_CleanupKeepsAssets ==
    [][ op'.name = "cleanup" =>
            /\ files' \subseteq files /\ dirs' \subseteq dirs
            /\ MediaFiles(files') = MediaFiles(files)
            /\ Assets(files', dirs') = Assets(files, dirs)
            /\ \A d \in dirs \ dirs' :
                   /\ MediaFiles(FilesBelow(files, d)) = {}
                   /\ Len(d) = 1 =>
                          FilesBelow(files, d) \subseteq {File(d, PackageInfo)}
            /\ \A f \in files' : f.dir \in dirs'
      ]_vars

\* a cleanup removed the empty directories of channel b and left the asset
\* of channel a, its directories and package_info.json
C20_Witness ==
    /\ op.name = "cleanup" /\ op.ret = "removed"
    /\ File(AssetDir("a"), AssetName(1)) \in files
    /\ File(<< "2024-01" >>, PackageInfo) \in files
    /\ AssetDir("a") \in dirs
    /\ Parent(AssetDir("b")) \notin dirs

(***************************************************************************)
(* Properties of the album aggregator.                                     *)
(***************************************************************************)
\* how often message id occurs in sequence s
Occurrences(s, id) == Cardinality({k \in 1 .. Len(s) : s[k] = id})

\* how often message id was handed to a flush of media group g
FlushedIn(g, id) ==
    Cardinality({k \in 1 .. Len(flushes) :
        flushes[k].group = g /\ Occurrences(flushes[k].items, id) = 1})

\* the buffer and the pending timer of media group g: the buffered message
\* ids, and the due time of the run_once job (None: no timer)
KeyState(buffer, timers, queue, g) ==
    << IF g \in DOMAIN buffer THEN buffer[g] ELSE << >>,
       IF g \in DOMAIN timers /\ timers[g] \in DOMAIN queue
       THEN queue[timers[g]].due ELSE None >>

\* C21: whatever the interleaving of the ingests of several media groups
\* and of their flushes, every message is either still buffered under its
\* own group or was handed to exactly one flush, a flush of its own group;
\* a step of handle_album_message or _process_album for one group leaves
\* buffer and timer of every other group as they were; after every step a
\* group has buffered messages exactly when it has a timer armed, so the
\* append and the re-arming of the timer are one step.
C21_KeysIndependent ==
    /\ [](\A i \in 1 .. Len(arrivals) :
            LET g == arrivals[i].group
            IN  /\ Occurrences(Pending(g), i) + FlushedIn(g, i) = 1
                /\ \A h \in Groups \ {g} :
                       Occurrences(Pending(h), i) + FlushedIn(h, i) = 0)
    /\ [](\A g \in Groups :
            (Pending(g) # << >>) <=>
                KeyState(_album_buffer, _album_timers, once_queue, g)[2] # None)
    /\ [][ op'.name \in {"handle_album_message", "process_album"} =>
              \A h \in Groups \ {op'.ret} :
                  KeyState(_album_buffer', _album_timers', once_queue', h) =
                      KeyState(_album_buffer, _album_timers, once_queue, h)
         ]_vars

\* media group g1 was flushed while a message of g2 is still buffered
C21_Witness ==
    /\ Len(flushes) = 1
    /\ flushes[1].group = "g1"
    /\ Pending("g2") # << >>
    /\ op.name = "process_album"

\* the flushes of non-empty batches that have ended
EndedFlushes == Len(flushes) - Cardinality(DOMAIN album_task)

\* C22: every flush of a non-empty batch that has ended has sent exactly
\* one reply for the whole batch, and a flush in flight has sent none yet;
\* the step that starts the flush removes the buffer entry and the timer
\* entry of its media group.
C22_OneReplyPerFlush ==
    /\ [](Len(replies) = EndedFlushes)
    /\ [][ op'.name = "process_album" =>
              /\ op'.ret \notin DOMAIN _album_buffer'
              /\ op'.ret \notin DOMAIN _album_timers'
         ]_vars

\* the flush fl is still in flight
InFlight(fl) ==
    \E jid \in DOMAIN album_task : album_task[jid].messages[1].id = fl.items[1]

\* C23: every flush that has ended has a summary in which saved count plus
\* error count is the number of items of the batch: an item that ends in
\* an error is counted and the items after it are attempted all the same.
C23_EveryItemProcessed ==
    \A k \in 1 .. Len(flushes) :
        ~InFlight(flushes[k]) =>
            \E r \in 1 .. Len(replies) :
                /\ replies[r].to = flushes[k].items[1]
                /\ replies[r].saved + replies[r].errors = Len(flushes[k].items)

\* the patterns of the classification table as the claim lists them
ClaimedPatterns ==
    << {<< "chat", "not", "found" >>},
       {<< "kicked" >>, << "not", "a", "member" >>},
       {<< "forbidden" >>},
       {<< "wrong", "file", "identifier" >>, << "invalid" >>},
       {<< "too", "large" >>, << "file", "is", "too", "big" >>},
       {<< "flood" >>, << "too", "many", "requests" >>} >>

ClaimedTable ==
    [i \in 1 .. Len(ApiHints) |->
        [patterns |-> ClaimedPatterns[i], hint |-> ApiHints[i].hint]]

\* C24: a diagnosed failure carries the fixed text of its reason code and,
\* for send_failed only, the hint of the first table entry whose pattern
\* occurs, case-insensitively, in the transport error text; the hint depends
\* on the transport error text alone, and there is none without a match or
\* for another reason code.
C24_HintFromTransportText ==
    op.name = "diagnose" =>
        /\ op.ret = "no_content" =>
              op.diag.reason_text = "content not found (0 files)"
        /\ op.ret = "file_missing" =>
              op.diag.reason_text = "file vanished from the disk"
        /\ op.ret = "send_failed" =>
              op.diag.reason_text = "error sending to the Telegram API"
        /\ op.diag.api_hint =
              IF op.ret = "send_failed"
              THEN FirstHint(ClaimedTable, LowerAll(_last_send_error))
              ELSE NoHint

TickSteps == {"timer", "verify", "send_done", "alert_done"}

\* C25: while the scheduler is active its timer is scheduled; no step of a
\* tick, whatever its outcome, makes the scheduler inactive or removes its
\* timer; the only step that makes an active scheduler inactive is
\* stop_posting.
C25_OnlyStopHalts ==
    /\ [](is_posting => /\ posting_job # None
                        /\ job_queue[posting_job] # None)
    /\ [][ (is_posting /\ posting_job # None /\ op'.name \in TickSteps) =>
              /\ is_posting'
              /\ posting_job' = posting_job
              /\ job_queue'[posting_job] # None
         ]_vars
    /\ [][ (is_posting /\ ~is_posting') => op'.name = "stop_posting" ]_vars

\* a second tick has ended in send_failed and the scheduler is still active
C25_Witness ==
    /\ op.name = "send_done"
    /\ op.ret = "send_failed"
    /\ Len(selections) >= 2
    /\ is_posting
    /\ posting_job # None
    /\ job_queue[posting_job] # None

\* C26: a send that fails ends the tick with the outcome send_failed, whose
\* detail carries the error text of the transport as it was raised; the
\* failure does not leave the tick as an exception, and the step deletes
\* nothing from the content tree.
C26_SendFailureReported ==
    [][ (op'.name = "send_done" /\ _last_send_error' # NoError) =>
           /\ op'.ret = "send_failed"
           /\ op'.diag = << "API error", _last_send_error' >>
           /\ files' = files
      ]_vars

\* the time since the last publish, at a start at time t
Elapsed(t, lpt) == t - lpt

Max0(n) == IF n > 0 THEN n ELSE 0

\* the first tick of the job a start has scheduled is due `delay` from now
FirstTickAfter(delay) ==
    /\ posting_job' # None
    /\ job_queue'[posting_job'] = now' + delay

\* C27: a start with a last publish time schedules the first tick
\* max(0, I - elapsed) from now, that is at once when a full interval has
\* elapsed.
C27_DelayIsRemainder ==
    [][ /\ ( /\ op'.name = "start_posting"
              /\ op'.ret = "true"
              /\ last_post_time # None ) =>
                FirstTickAfter(Max0(IntervalSeconds
                                      - Elapsed(now, last_post_time)))
        /\ ( /\ op'.name = "startup"
              /\ LoadedTime(STATE_FILE) # None ) =>
                FirstTickAfter(Max0(IntervalSeconds
                                      - Elapsed(now, LoadedTime(STATE_FILE))))
      ]_vars

\* position of channel ch in the list s
IndexIn(s, ch) == CHOOSE i \in 1 .. Len(s) : s[i] = ch

\* C28: the rotation list changes only when the scheduler is constructed or
\* reconfigured; after a reconfiguration the channels that were in the list
\* before keep their relative order and every channel that is new in the
\* list stands after all of them.
C28_AddedChannelsAppended ==
    [][ /\ op'.name \notin {"reload", "startup"} =>
              channels_list' = channels_list
        /\ op'.name = "reload" =>
              LET old == Range(channels_list)
                  new == Range(channels_list')
              IN  /\ \A x, y \in old \cap new :
                        IndexIn(channels_list, x) < IndexIn(channels_list, y)
                            => IndexIn(channels_list', x)
                                  < IndexIn(channels_list', y)
                  /\ \A x \in new \ old : \A y \in old \cap new :
                        IndexIn(channels_list', y) < IndexIn(channels_list', x)
      ]_vars

\* the single submission that the step handles, as a batch of one item
OneItemBatch ==
    LET a == arrivals'[Len(arrivals')]
    IN  NewTask(NoGroup, << [id |-> Len(arrivals'), caption |-> a.caption] >>,
                a.caption)

\* the locals of the batch loop after save_file has returned for its item
AfterItem(task, step) ==
    IF step.ret = "ok"
    THEN [task EXCEPT !.saved = @ + 1,
                      !.last_result = SavedResult(task.cat.channel_key,
                                                  task.cat.category),
                      !.i = @ + 1]
    ELSE [task EXCEPT !.errors = @ + 1,
                      !.last_result = ErrorResult(step.ret),
                      !.i = @ + 1]

Successor(ch) == channels_list[(PosOf(ch) % Len(channels_list)) + 1]

\* C30: with crashes in the middle of a tick, after the advanced index was
\* saved, and restarts, every selection is the successor in the list of
\* the selection before it, the one of the crashed tick included, and a
\* running scheduler is to select next the successor of the last selection:
\* only the channel the crashed tick had reserved goes without its publish.
C30_ResumesAfterReserved ==
    LET k == Len(selections)
    IN  /\ \A i \in 1 .. k - 1 : selections[i + 1] = Successor(selections[i])
        /\ (k >= 1 /\ \E j \in JobIds : job_queue[j] # None) =>
              channels_list[current_channel_index + 1] = Successor(selections[k])

\* after one crash in a tick and the restart, the next channel was selected
C30_Witness ==
    /\ events = 2
    /\ op.name = "timer"
    /\ PassedGate(op)
    /\ Len(selections) >= 2
    /\ selections[Len(selections)] # selections[Len(selections) - 1]

\* C31: a tick whose _save_state raises ends there and nothing else does:
\* no coroutine of the job is left, the scheduler stays active with the
\* same job, and the job stays in the queue, due again one interval after
\* the run that failed.
C31_SaveFailureEndsTickOnly ==
    [][ op'.ret = "save_failed" =>
           /\ tick'[op'.job] = IdleTick
           /\ is_posting' = is_posting
           /\ posting_job' = posting_job
           /\ job_queue'[op'.job] # None
           /\ job_queue'[op'.job] <= job_queue[op'.job] + IntervalSeconds
      ]_vars

\* a tick has published after an earlier tick ended in a failed save
C31_Witness ==
    /\ events >= 1
    /\ op.name = "send_done"
    /\ op.ret = "ok"
    /\ is_posting

\* a month, channel or category directory that cleanup_empty_dirs is to remove
Removable(fs, ds, d) ==
    /\ << d[1] >> \in MonthDirs(ds)
    /\ \/ Len(d) \in {2, 3} /\ IsEmptyDir(fs, ds, d)
       \/ Len(d) = 1 /\ SubDirs(ds, d) = {}
                     /\ FilesIn(fs, d) \subseteq {File(d, PackageInfo)}

\* C32: after a call of cleanup_empty_dirs no month, channel or category
\* directory is left for it to remove, and a second call that follows with
\* no step between removes nothing and leaves files and directories as
\* they are.
C32_CleanupIdempotent ==
    /\ [](op.name = "cleanup" =>
             /\ \A d \in dirs : ~Removable(files, dirs, d)
             /\ cleanup_empty_dirs(files, dirs) = [files |-> files, dirs |-> dirs])
    /\ [][ (op.name = "cleanup" /\ op'.name = "cleanup") =>
              /\ files' = files
              /\ dirs' = dirs
              /\ op'.ret = "nothing"
         ]_vars

\* a second call right after a call that removed the directories of
\* channel b
C32_Witness ==
    /\ op.name = "cleanup"
    /\ op.job = 1
    /\ op.ret = "nothing"
    /\ Parent(AssetDir("b")) \notin dirs
    /\ AssetDir("a") \in dirs

\* the caption of the earliest message of msgs whose caption is not empty
EarliestCaption(msgs) ==
    LET ks == {k \in 1 .. Len(msgs) : msgs[k].caption # << >>}
    IN  IF ks = {} THEN << >>
        ELSE msgs[CHOOSE k \in ks : \A m \in ks : k <= m].caption

FlushEnds(jid) ==
    /\ jid \in DOMAIN album_task
    /\ jid \notin DOMAIN album_task'
    /\ Len(replies') = Len(replies) + 1

\* C34: the reply that ends a flush in which items failed carries the error
\* of the earliest item that failed: when exactly one item had failed before
\* the last item was handled, the reply carries the error of that item,
\* whatever became of the last item.
C34_FirstErrorReported ==
    [][ \A jid \in OnceIds :
           ( /\ FlushEnds(jid)
             /\ album_task[jid].errors = 1
             /\ album_task[jid].last_result.kind = "error" ) =>
               /\ replies'[Len(replies')].errors >= 1
               /\ replies'[Len(replies')].text = album_task[jid].last_result.error
      ]_vars

\* C40: a reply that reports saved items names the channel and the category
\* under which they were written: files stand in the directory of that
\* channel and category.
C40_SavedReplyNamesTarget ==
    \A k \in 1 .. Len(replies) :
        (replies[k].ok /\ replies[k].saved > 0) =>
            \E f \in files : f.dir = << replies[k].channel, replies[k].category >>

\* C35: a write that completes stores its asset under a name no file of the
\* directory has, also when another write into the same directory was in
\* flight at the same time: every file that was there is still there and
\* one more file exists.
C35_ConcurrentWritesDistinct ==
    [][ (op'.name = "download_done" /\ op'.ret = "ok") =>
           /\ File(album_task[op'.job].dir, album_task[op'.job].fname) \notin files
           /\ files \subseteq files'
           /\ Cardinality(files') = Cardinality(files) + 1
      ]_vars

\* C36: two publishes that are in flight at the same time, a tick and a
\* publish by hand, never hold the same asset for sending.
C36_NoAssetSentTwice ==
    \A j, k \in JobIds :
        (j # k /\ tick[j].pc = "sending" /\ tick[k].pc = "sending") =>
            tick[j].img # tick[k].img

\* the step just taken ended a call of post_and_delete by a tick
PublishEnded(o) ==
    \/ o.name = "timer" /\ o.ret \in {"no_content", "raised"}
    \/ o.name = "verify" /\ o.ret = "file_missing"
    \/ o.name = "send_done"

\* the closed set of outcomes of post_and_delete
PublishOutcomes == {"ok", "no_content", "file_missing", "send_failed"}

\* C37: every call of post_and_delete ends with one outcome of the closed
\* set ok, no_content, file_missing, send_failed and never with an
\* exception, also when the selected asset leaves the content tree while the
\* send is in flight.
C37_PublishNeverRaises ==
    [][ PublishEnded(op') => op'.ret \in PublishOutcomes ]_vars

\* C39: a /reload that fails leaves the configuration and the destination
\* list as they were before it, so every reader after it sees the complete
\* old configuration.
C39_FailedReloadKeepsConfig ==
    [][ (op'.name = "reload" /\ op'.ret = "error") =>
           /\ CONFIG' = CONFIG
           /\ channels_list' = channels_list
      ]_vars

\* the jobs of the queue that are scheduled to fire
ScheduledJobs == {j \in JobIds : job_queue[j] # None}

\* C38: in every state reached by start_posting and stop_posting calls the
\* flag is_posting is true exactly when posting_job holds a job, that job is
\* the one in the queue, and the queue holds at most one posting job.
C38_FlagMatchesJob ==
    /\ is_posting <=> posting_job # None
    /\ Cardinality(ScheduledJobs) <= 1
    /\ ScheduledJobs = IF is_posting THEN {posting_job} ELSE {}

\* a start after a stop, made while a tick of the removed job is in flight
C38_Witness ==
    /\ op.name = "start_posting"
    /\ op.ret = "true"
    /\ is_posting
    /\ \E j \in JobIds : j # posting_job /\ tick[j].pc # "idle"

====
